---- MODULE Spec2Model ----
(***************************************************************************)
(* ddj-api: the round-time engine, the bet pipeline, the settlement engine *)
(* and the wallet operations, as state machines over the logical tables    *)
(* players, dos_ledger, gift_codes, bets, game_bank and rounds.            *)
(*                                                                         *)
(* The database is PostgreSQL at READ COMMITTED: every statement sees the  *)
(* rows committed before it starts; SELECT ... FOR UPDATE and UPDATE wait  *)
(* for the row lock and then read the latest committed version; a          *)
(* transaction's writes become visible at COMMIT and vanish at ROLLBACK.   *)
(* A transaction's writes are kept in loc[p] until its COMMIT step.        *)
(***************************************************************************)
EXTENDS Integers, Sequences, FiniteSets, Bags, TLC

\* ------------------------------------------------------------------ bounds
\* number of clock ticks the model lets pass
MaxTicks == 3

\* ------------------------------------------------------- program constants
SIGNUP_BONUS_DOS == 50
DefaultRoundSeconds == 300
DefaultCloseBetsAt == 30
\* the clock advances in steps of TickMs milliseconds, 9/20 of a round: the
\* second tick falls on closeAt of round 0, the third one after its end
TickMs == (DefaultRoundSeconds * 1000 * 9) \div 20

NULL == "NULL"
FREE == "free"

\* the requests of the model, each issued once
BetProcs == {"b1", "b2"}
SettleProcs == {"s1", "s2"}
SignupProcs == {"u1"}
\* two signup requests, to repeat a username
DupSignupProcs == {"u1", "u2"}
RedeemProcs == {"r1", "r2"}
AdminProcs == {"a1"}
Procs == BetProcs \cup SettleProcs \cup SignupProcs \cup DupSignupProcs
           \cup RedeemProcs \cup AdminProcs

\* players present from the start (each signed up with the bonus)
InitPlayers == {1, 2}
\* the ids the players table may hold: a signup gets the next serial id
PlayerIds == InitPlayers \cup {Cardinality(InitPlayers) + 1}
\* the gift codes of the gift_codes table, by code hash
Codes == {"G1"}

VARIABLES
  now,            \* Date.now(), ms
  roundSeconds, closeBetsAt, anchorMs,   \* server.js timing parameters
  players,        \* id -> [username, balance_dos, status]
  dos_ledger,     \* bag of [player_id, type, amount, ref]
  gift_codes,     \* code hash -> [value_dos, status, expires_at, redeemed_by]
  bets,           \* id -> [player_id, round_id, nums, chance, amount, settled, payout_dos, category]
  game_bank,      \* [carry_dos, admin_balance_dos]
  rounds,         \* round_id -> [draw, total_bets_dos, pot_total_dos, admin_take_dos, carry_in_dos, carry_out_dos]
  round_results,  \* api: round_id -> [outcome]
  admin_ledger,   \* api: bag of [type, amount, ref]
  hasAdminLedger, \* api: whether the database holds a table admin_ledger
  hasAmountCheck, \* whether bets.amount carries CHECK (amount > 0)
  redeemLimiter,  \* the Map redeemLimiter: ip -> { count, resetAtMs }
  limLog,         \* history: the attempts redeemRateLimit has seen, in order
  locks,          \* row -> owner of its row lock, or FREE
  drawOf,         \* round_id -> the outcome drawNumbers(round_id) returns
  server,         \* the deployed server: "root" (src/server.js) or "api" (src/apps/api/server.js)
  pc, loc, resp,  \* per request: position, locals, response
  betCommitMs,    \* history: bet id -> time of its COMMIT
  settleLog,      \* history: one record per committed settlement transaction
  settleFails,    \* history: one record per rolled-back settlement transaction
  pickHex,        \* pickOutcomeForRound: hex, as its eight 8-digit words
  pickIdx,        \* pickOutcomeForRound: idx, the cursor into hex (0, 8, .., 56)
  pickNums,       \* pickOutcomeForRound: the Set nums
  pickPc,         \* pickOutcomeForRound: "idle", "loop", "chance" or "done"
  pickOut,        \* pickOutcomeForRound: the value returned, or NULL
  rngX,           \* seededRng: the 32 bits of x, as the set of the positions of its 1 bits
  callArgs,       \* the arguments of a function call under study: <<args>>, or <<>>
  callRet,        \* what that call returned: <<value>>, or <<>> while it has not
  secretSeedLen   \* String(process.env.SECRET_SEED).length, 0 when it is not set

timing == <<roundSeconds, closeBetsAt, anchorMs>>
\* the tables only src/apps/api/server.js uses
apidb == <<round_results, admin_ledger>>
db == <<players, dos_ledger, bets, game_bank, rounds, gift_codes, apidb>>
hist == <<betCommitMs, settleLog, settleFails>>
\* what no request changes
fixed == <<drawOf, server, hasAdminLedger, hasAmountCheck, secretSeedLen>>
\* the redeem rate limiter
limiter == <<redeemLimiter, limLog>>
\* pickOutcomeForRound: the digest, the cursor into it, the Set, the result
picker == <<pickHex, pickIdx, pickNums, pickPc, pickOut, rngX>>
\* a call of a pure function of the program: its arguments, its return value
call == <<callArgs, callRet>>
vars == <<now, timing, db, locks, fixed, limiter, picker, call, pc, loc, resp, hist>>

\* ------------------------------------------------------------ round engine
\* Math.ceil(a / b) for b > 0
CeilDiv(a, b) == -((-a) \div b)

\* Math.max(0, Math.ceil(ms / 1000))
SecondsUntil(ms) == IF CeilDiv(ms, 1000) > 0 THEN CeilDiv(ms, 1000) ELSE 0

\* betsOpen = nowMs <= closeAtMs: the instant closeAtMs would still take bets
BetsOpenInclusive(nowMs, closeAtMs) == nowMs <= closeAtMs

\* betsOpen = nowMs < closeAtMs
BetsOpen(nowMs, closeAtMs) == nowMs < closeAtMs

\* Math.trunc((nowMs - anchorMs) / roundMs): rounding towards zero
RoundIdTrunc(nowMs, roundMs) ==
  IF nowMs - anchorMs >= 0 THEN (nowMs - anchorMs) \div roundMs
  ELSE 0 - ((anchorMs - nowMs) \div roundMs)
\* Math.floor((nowMs - anchorMs) / roundMs)
RoundIdAt(nowMs, roundMs) == (nowMs - anchorMs) \div roundMs

getRoundInfo(nowMs) ==
  LET roundMs == roundSeconds * 1000
      roundId == RoundIdAt(nowMs, roundMs)
      roundStartMs == anchorMs + roundId * roundMs
      roundEndMs == roundStartMs + roundMs
      closeAtMs == roundEndMs - closeBetsAt * 1000
  IN [roundId |-> roundId, roundStartMs |-> roundStartMs, roundEndMs |-> roundEndMs,
      closeAtMs |-> closeAtMs, betsOpen |-> BetsOpen(nowMs, closeAtMs),
      secondsLeft |-> SecondsUntil(roundEndMs - nowMs),
      secondsToClose |-> SecondsUntil(closeAtMs - nowMs)]

getRoundById(roundId, nowMs) ==
  LET roundMs == roundSeconds * 1000
      roundStartMs == anchorMs + roundId * roundMs
      roundEndMs == roundStartMs + roundMs
      closeAtMs == roundEndMs - closeBetsAt * 1000
  IN [roundId |-> roundId, roundStartMs |-> roundStartMs, roundEndMs |-> roundEndMs,
      closeAtMs |-> closeAtMs, betsOpen |-> nowMs < closeAtMs]

\* ------------------------------------------------------ settlement helpers
CatOrder == <<"4+1", "4+0", "3+1", "3+0", "1+1">>
Cats == {CatOrder[i] : i \in DOMAIN CatOrder}
\* POT_SHARES in percent
POT_SHARES == [c \in Cats |->
  CASE c = "4+1" -> 45 [] c = "4+0" -> 25 [] c = "3+1" -> 15 [] c = "3+0" -> 10 [] c = "1+1" -> 5]

\* Math.floor(x * 0.pp): for 0 <= x < 2000 and the percentages of server.js the
\* double product has the floor of the exact product
FloorPct(x, pct) == (x * pct) \div 100

\* nums is the set of the numbers of the sorted unique array; NoNums stands for
\* the nums NULL of a legacy A/B bet (not an array)
NoNums == {}
categoryForBet(betNums, betChance, drawNums, drawChance) ==
  IF betNums = NoNums \/ Cardinality(betNums) # 4 THEN NULL
  ELSE LET k == Cardinality(betNums \cap drawNums)
           c == IF betChance = drawChance THEN 1 ELSE 0
       IN CASE k = 4 /\ c = 1 -> "4+1"
            [] k = 4 /\ c = 0 -> "4+0"
            [] k = 3 /\ c = 1 -> "3+1"
            [] k = 3 /\ c = 0 -> "3+0"
            [] k = 1 /\ c = 1 -> "1+1"
            [] OTHER -> NULL

RECURSIVE SumAmount(_, _)
\* sum of rows[i].amount over the ids i of S
SumAmount(rows, S) ==
  IF S = {} THEN 0
  ELSE LET i == CHOOSE x \in S : TRUE IN rows[i].amount + SumAmount(rows, S \ {i})

RECURSIVE SumFn(_, _)
SumFn(f, S) ==
  IF S = {} THEN 0
  ELSE LET i == CHOOSE x \in S : TRUE IN f[i] + SumFn(f, S \ {i})

\* steps 4 to 6 of POST /api/admin/settle: the split, the categories, the payouts
\* and the carry, from the loaded bets (ids `ids` of table rows), carryIn and the draw
SettleCompute(rows, ids, carryIn, draw) ==
  LET totalBets == SumAmount(rows, ids)
      adminTake == FloorPct(totalBets, 25)
      carryBaseOut == FloorPct(totalBets, 10)
      potGains == FloorPct(totalBets, 65)
      potTotal == potGains + carryIn
      catOf == [i \in ids |-> categoryForBet(rows[i].nums, rows[i].chance, draw.nums, draw.chance)]
      winners == [c \in Cats |-> {i \in ids : catOf[i] = c}]
      catPot == [c \in Cats |-> FloorPct(potTotal, POT_SHARES[c])]
      perBet == [c \in Cats |->
                   IF winners[c] = {} THEN 0 ELSE catPot[c] \div Cardinality(winners[c])]
      toCarry == [c \in Cats |->
                   IF winners[c] = {} THEN catPot[c]
                   ELSE catPot[c] - perBet[c] * Cardinality(winners[c])]
      paidIds == {i \in ids : catOf[i] # NULL}
      payouts == [i \in paidIds |-> [amount |-> perBet[catOf[i]], category |-> catOf[i]]]
      distributed == SumAmount(payouts, paidIds)
      catAllocated == SumFn(catPot, Cats)
      roundingLoss == potTotal - catAllocated
      carryOut == carryBaseOut + SumFn(toCarry, Cats)
                    + (IF roundingLoss > 0 THEN roundingLoss ELSE 0)
  IN [totalBets |-> totalBets, adminTake |-> adminTake, potGains |-> potGains,
      potTotal |-> potTotal, payouts |-> payouts, distributed |-> distributed,
      carryOut |-> carryOut, carryIn |-> carryIn]

\* a grouping that keeps one payout per player instead of adding them up
ByPlayerOne(rows, payouts) ==
  LET pids == {rows[i].player_id : i \in DOMAIN payouts}
  IN [q \in pids |->
        payouts[CHOOSE i \in DOMAIN payouts : rows[i].player_id = q].amount]

\* group by player: player id -> sum of the payouts of its bets
ByPlayer(rows, payouts) ==
  LET pids == {rows[i].player_id : i \in DOMAIN payouts}
  IN [q \in pids |-> SumAmount(payouts, {i \in DOMAIN payouts : rows[i].player_id = q})]

\* ------------------------------------------------------------ table helpers
EmptyFn == [x \in {} |-> NULL]
\* the rounds that can end within the model's time
RoundIds == 0 .. ((MaxTicks * TickMs) \div (DefaultRoundSeconds * 1000))
BetRow(id) == <<"bet", id>>
PlayerRow(id) == <<"player", id>>
BankRow == <<"bank", 1>>
CodeRow(c) == <<"code", c>>
\* the key round_id of round_results: an INSERT of the key waits for an
\* uncommitted INSERT of the same key
ResultRow(r) == <<"result", r>>
Rows == {PlayerRow(i) : i \in PlayerIds} \cup {BankRow} \cup {BetRow(b) : b \in BetProcs}
          \cup {CodeRow(c) : c \in Codes} \cup {ResultRow(r) : r \in RoundIds}

Reply(code, error) == [code |-> code, error |-> error]
\* res.status(409).json({ error: "bets closed", roundId, secToClose })
BetsClosedReply(round) ==
  [code |-> 409, error |-> "bets closed", roundId |-> round.roundId,
   secToClose |-> round.secondsToClose]

NoReply == Reply(0, "")
NoLoc == [k |-> "none"]

\* the row locks p's transaction holds are released at its COMMIT or ROLLBACK
Release(p) == [r \in Rows |-> IF locks[r] = p THEN FREE ELSE locks[r]]

LedgerRow(player, type, amount, ref) ==
  [player_id |-> player, type |-> type, amount |-> amount, ref |-> ref]

RECURSIVE BagSum(_, _)
\* sum of the amounts of the rows S of the bag B, with their multiplicity
BagSum(B, S) ==
  IF S = {} THEN 0
  ELSE LET r == CHOOSE x \in S : TRUE
       IN r.amount * CopiesIn(r, B) + BagSum(B, S \ {r})

LedgerSum(player) ==
  BagSum(dos_ledger, {r \in BagToSet(dos_ledger) : r.player_id = player})

\* ------------------------------------------------------------------- inputs
\* the outcomes the draw of a round may be
Outcomes == {[nums |-> {1, 2, 3, 4}, chance |-> 1]}
\* number combinations a bet request may carry
BetCombos == {[nums |-> <<1, 2, 3, 4>>, chance |-> 1], [nums |-> <<5, 6, 7, 8>>, chance |-> 2]}
BetAmounts == {10, 40}
\* a number of a request body is the fraction n / d, d > 0
Num(n, d) == [n |-> n, d |-> d]
Whole(k) == Num(k, 1)
NumIsInteger(a) == a.n % a.d = 0
\* k < a for an integer k
NumLess(k, a) == k * a.d < a.n
BetBodies == [playerId : InitPlayers, amount : {Whole(k) : k \in BetAmounts}, combo : BetCombos]
\* requests that try the validation: amounts 10, 0.5, 0 and -5; nums lists of
\* 3, 4, 5, 8 and 9 distinct numbers (two with a repeated number) and one out of 1..20
AnyAmounts == {Whole(10), Num(1, 2), Whole(0), Whole(0 - 5)}
AnyNums == {<<1, 2, 3, 3>>, <<1, 2, 3, 4>>, <<1, 2, 3, 4, 4, 5>>,
            <<1, 2, 3, 4, 5, 6, 7, 8>>, <<1, 2, 3, 4, 5, 6, 7, 8, 9>>, <<1, 2, 3, 21>>}
AnyBetBodies == [playerId : {1}, amount : AnyAmounts,
                 combo : [nums : AnyNums, chance : {1}]]
\* the body of a settle request: roundId given or absent (the previous round)
SettleBodies == {[given |-> FALSE, roundId |-> 0], [given |-> TRUE, roundId |-> 0]}

\* usernames are sequences of characters
Alice == <<"a", "l", "i", "c", "e">>
Bob == <<"b", "o", "b">>
Carol == <<"c", "a", "r", "o", "l">>

\* the state after start-up and initDb, with the players of InitPlayers signed up
\* and one ACTIVE gift code that expires at the end of round 0
InitTiming ==
  /\ roundSeconds = DefaultRoundSeconds
  /\ closeBetsAt = DefaultCloseBetsAt
  /\ anchorMs = 0

\* the database, the limiter and the requests at start-up
InitTables ==
  /\ now = 0
  /\ players = [i \in InitPlayers |->
       [username |-> IF i = 1 THEN Alice ELSE Bob,
        balance_dos |-> SIGNUP_BONUS_DOS, status |-> "ACTIVE"]]
  /\ dos_ledger = SetToBag({LedgerRow(i, "BONUS_SIGNUP", SIGNUP_BONUS_DOS, "signup") : i \in InitPlayers})
  /\ gift_codes = [c \in Codes |->
       [value_dos |-> 20, status |-> "ACTIVE",
        expires_at |-> DefaultRoundSeconds * 1000, redeemed_by |-> 0]]
  /\ bets = EmptyFn
  /\ game_bank = [carry_dos |-> 0, admin_balance_dos |-> 0]
  /\ rounds = EmptyFn
  /\ round_results = EmptyFn
  /\ admin_ledger = EmptyBag
  /\ locks = [r \in Rows |-> FREE]
  /\ pc = [p \in Procs |-> "start"]
  /\ loc = [p \in Procs |-> NoLoc]
  /\ resp = [p \in Procs |-> NoReply]
  /\ betCommitMs = EmptyFn
  /\ settleLog = {}
  /\ settleFails = {}
  /\ redeemLimiter = EmptyFn
  /\ limLog = <<>>

\* with the draws of the rounds, one function of the roundId
InitRest == InitTables /\ drawOf \in [RoundIds -> Outcomes]

\* no call of pickOutcomeForRound is under way
PickIdle ==
  /\ pickHex = <<>>
  /\ pickIdx = 0
  /\ pickNums = {}
  /\ pickPc = "idle"
  /\ pickOut = NULL
  /\ rngX = {}

\* no function call is under study
CallIdle == callArgs = <<>> /\ callRet = <<>>
\* the length a usable SECRET_SEED has at least, server.js:559
MinSeedLength == 16
\* the process runs with a SECRET_SEED of 16 characters
SeedSet == secretSeedLen = MinSeedLength

InitState == InitTiming /\ InitRest /\ PickIdle /\ CallIdle /\ SeedSet

Init == InitState /\ server = "root" /\ hasAdminLedger = FALSE /\ hasAmountCheck = FALSE

\* the request p ends with response r; its transaction, if any, is over
Finish(p, r) ==
  /\ pc' = [pc EXCEPT ![p] = "done"]
  /\ resp' = [resp EXCEPT ![p] = r]
  /\ loc' = [loc EXCEPT ![p] = NoLoc]

Tick ==
  /\ now < MaxTicks * TickMs
  /\ now' = now + TickMs
  /\ UNCHANGED <<timing, db, locks, fixed, limiter, picker, call, pc, loc, resp, hist>>

\* ------------------------------------------------- POST /api/bet (server.js)
\* amount validation, server.js:435 (amount is a finite number here)
BetAmountValid(amount) == amount.n > 0
\* cost = Math.floor(amount)
BetCost(amount) == amount.n \div amount.d
\* [...new Set(parsed)], sorted: the numbers of the list, each once
UniqueNums(numsRaw) == {numsRaw[i] : i \in DOMAIN numsRaw}
\* NOT (unique.length !== 4), server.js:454
NumsCountOk(unique) == Cardinality(unique) = 4
\* every n an integer of 1..20, server.js:457-461
NumsRangeOk(unique) == \A n \in unique : ~(n < 1 \/ n > 20)
\* chance an integer of 1..5, server.js:463-466
ChanceOk(chance) == ~(chance < 1 \/ chance > 5)
\* NOT (balanceBefore < cost), server.js:503; BetBalanceUnchecked is the
\* handler without the check
BetBalanceUnchecked(balanceBefore, cost) == TRUE
BetBalanceOk(balanceBefore, cost) == ~(balanceBefore < cost)
\* the SELECT of the player row is FOR UPDATE: the row lock is p's until COMMIT;
\* BetLockPlayerNone is the SELECT without FOR UPDATE
BetLockPlayerNone(p, pid) == locks
BetLockPlayer(p, pid) == [locks EXCEPT ![PlayerRow(pid)] = p]

\* the BET ledger row carries -cost; BetLedgerAmountUnsigned writes cost
BetLedgerAmountUnsigned(cost) == cost
BetLedgerAmount(cost) == 0 - cost

\* Array.isArray(req.body?.nums): the bodies of the old format carry a choice
\* and no nums
BodyHasNums(body) == "combo" \in DOMAIN body
\* String(choice || "").trim().toUpperCase() of the choices sent here
ChoiceUpper(raw) ==
  CASE raw = "a" -> "A" [] raw = " b " -> "B" [] raw = "c" -> "C" [] OTHER -> raw
ChoiceOf(body) == ChoiceUpper(body.choice)
\* the chance NULL of a bet of the old format
NoChance == 0
\* requests of the old format: choice absent, A, B (any case, padded) or C
LegacyBetBodies ==
  [playerId : {1}, amount : {Whole(10)}, choice : {"", "a", "A", " b ", "c"}]

\* the timing check and the validation, before the transaction
BetCheckOf(p, bodies) ==
  /\ pc[p] = "start"
  /\ server = "root"
  /\ \E body \in bodies :
       LET round == getRoundInfo(now)
           unique == UniqueNums(body.combo.nums)
       IN
       IF ~round.betsOpen
         THEN Finish(p, BetsClosedReply(round))
       ELSE IF ~BetAmountValid(body.amount)
         THEN Finish(p, Reply(400, "amount invalid"))
       ELSE IF ~BodyHasNums(body)
         THEN \* numsRaw is null: the old format, choice A or B
              IF ChoiceOf(body) = ""
                THEN Finish(p, Reply(400, "nums+chance required (or choice)"))
              ELSE IF ChoiceOf(body) \notin {"A", "B"}
                THEN Finish(p, Reply(400, "choice must be A or B"))
              ELSE /\ pc' = [pc EXCEPT ![p] = "b_lock"]
                   /\ loc' = [loc EXCEPT ![p] =
                        [playerId |-> body.playerId, amount |-> body.amount,
                         cost |-> BetCost(body.amount),
                         nums |-> NoNums, chance |-> NoChance,
                         roundId |-> round.roundId, balanceBefore |-> 0]]
                   /\ UNCHANGED resp
       ELSE IF ~NumsCountOk(unique)
         THEN Finish(p, Reply(400, "nums must contain 4 distinct numbers"))
       ELSE IF ~NumsRangeOk(unique)
         THEN Finish(p, Reply(400, "nums must be integers 1..20"))
       ELSE IF ~ChanceOk(body.combo.chance)
         THEN Finish(p, Reply(400, "chance must be integer 1..5"))
       ELSE /\ pc' = [pc EXCEPT ![p] = "b_lock"]
            /\ loc' = [loc EXCEPT ![p] =
                 [playerId |-> body.playerId, amount |-> body.amount,
                  cost |-> BetCost(body.amount),
                  nums |-> unique, chance |-> body.combo.chance,
                  roundId |-> round.roundId, balanceBefore |-> 0]]
            /\ UNCHANGED resp
  /\ UNCHANGED <<now, timing, db, locks, fixed, limiter, picker, call, hist>>

\* the requests of well-formed clients
BetCheck(p) == BetCheckOf(p, BetBodies)
\* the requests of any client
BetCheckAny(p) == BetCheckOf(p, AnyBetBodies)
\* the requests of the old format
BetCheckLegacy(p) == BetCheckOf(p, LegacyBetBodies)

\* BEGIN; SELECT ... FROM players WHERE id=$1 FOR UPDATE; the three rejections
BetLock(p) ==
  /\ pc[p] = "b_lock"
  /\ LET pid == loc[p].playerId IN
     IF pid \notin DOMAIN players
       THEN Finish(p, Reply(404, "player not found")) /\ UNCHANGED locks
     ELSE /\ locks[PlayerRow(pid)] \in {FREE, p}
          /\ IF players[pid].status # "ACTIVE"
               THEN Finish(p, Reply(403, "player not active")) /\ UNCHANGED locks
             ELSE IF ~BetBalanceOk(players[pid].balance_dos, loc[p].cost)
               THEN Finish(p, Reply(409, "insufficient balance")) /\ UNCHANGED locks
             ELSE /\ locks' = BetLockPlayer(p, pid)
                  /\ pc' = [pc EXCEPT ![p] = "b_write"]
                  /\ loc' = [loc EXCEPT ![p] =
                       [@ EXCEPT !.balanceBefore = players[pid].balance_dos]]
                  /\ UNCHANGED resp
  /\ UNCHANGED <<now, timing, db, fixed, limiter, picker, call, hist>>

\* INSERT INTO bets; UPDATE players SET balance_dos=$1; INSERT INTO dos_ledger; COMMIT
\* with CHECK (amount > 0) on bets.amount the INSERT of a cost that is not
\* positive throws: catch, ROLLBACK, 500
BetCommit(p) ==
  /\ pc[p] = "b_write"
  /\ IF hasAmountCheck /\ ~(loc[p].cost > 0)
       THEN UNCHANGED <<players, bets, dos_ledger, betCommitMs>>
            /\ Finish(p, Reply(500, "error"))
       ELSE LET pid == loc[p].playerId
                balanceAfter == loc[p].balanceBefore - loc[p].cost
            IN /\ bets' = bets @@ (p :> [player_id |-> pid, round_id |-> loc[p].roundId,
                                         nums |-> loc[p].nums, chance |-> loc[p].chance,
                                         amount |-> loc[p].cost, settled |-> FALSE,
                                         payout_dos |-> 0, category |-> NULL])
               /\ players' = [players EXCEPT ![pid].balance_dos = balanceAfter]
               /\ dos_ledger' = dos_ledger (+)
                    SetToBag({LedgerRow(pid, "BET", BetLedgerAmount(loc[p].cost), p)})
               /\ betCommitMs' = betCommitMs @@ (p :> now)
               /\ Finish(p, Reply(200, "ok"))
  /\ locks' = Release(p)
  /\ UNCHANGED <<now, timing, game_bank, rounds, apidb, gift_codes, fixed, limiter, picker, call, settleLog, settleFails>>

\* ---------------------------------------- POST /api/admin/settle (server.js)
\* NOT (nowMs < target.roundEndMs), server.js:578; SettleAnyTime is the
\* handler without the check
SettleAnyTime(nowMs, target) == TRUE
SettleRoundEnded(nowMs, target) == ~(nowMs < target.roundEndMs)
\* SELECT * FROM rounds WHERE round_id=$1 AND settled_at IS NOT NULL returns a row
\* (every row of rounds is written with settled_at = NOW()); SettleNeverSettled
\* is the handler without step 0
SettleNeverSettled(roundId) == FALSE
SettleAlreadySettled(roundId) == roundId \in DOMAIN rounds

UnsettledOf(roundId) == {i \in DOMAIN bets : bets[i].round_id = roundId /\ ~bets[i].settled}

\* the preconditions, before the transaction
SettleStart(p) ==
  /\ pc[p] = "start"
  /\ \E body \in SettleBodies :
       LET current == getRoundInfo(now)
           targetRoundId == IF body.given THEN body.roundId ELSE current.roundId - 1
           target == getRoundById(targetRoundId, now)
       IN IF secretSeedLen < MinSeedLength
            THEN Finish(p, Reply(500, "SECRET_SEED manquant/trop court"))
          ELSE IF targetRoundId < 0
            THEN Finish(p, Reply(400, "roundId invalid"))
          ELSE IF ~SettleRoundEnded(now, target)
            THEN Finish(p, Reply(409, "round not ended yet"))
          ELSE /\ pc' = [pc EXCEPT ![p] = "s_already"]
               /\ loc' = [loc EXCEPT ![p] = [roundId |-> targetRoundId]]
               /\ UNCHANGED resp
  /\ UNCHANGED <<now, timing, db, locks, fixed, limiter, picker, call, hist>>

\* BEGIN; step 0, the idempotence SELECT (it takes no lock)
SettleAlready(p) ==
  /\ pc[p] = "s_already"
  /\ IF SettleAlreadySettled(loc[p].roundId)
       THEN Finish(p, Reply(200, "alreadySettled"))
       ELSE /\ pc' = [pc EXCEPT ![p] = "s_bank"]
            /\ UNCHANGED <<loc, resp>>
  /\ UNCHANGED <<now, timing, db, locks, fixed, limiter, picker, call, hist>>

\* a draw taken for the round in which the settle request arrives
SettleDrawNow(roundId) == drawOf[getRoundInfo(now).roundId]
\* step 2: drawNumbers(targetRoundId)
SettleDraw(roundId) == drawOf[roundId]

\* steps 1 to 6: SELECT game_bank FOR UPDATE (waits for the bank row), the draw,
\* SELECT the round's unsettled bets FOR UPDATE, and the computation
SettleBank(p) ==
  /\ pc[p] = "s_bank"
  /\ locks[BankRow] \in {FREE, p}
  /\ LET roundId == loc[p].roundId
         ids == UnsettledOf(roundId)
         comp == SettleCompute(bets, ids, game_bank.carry_dos, SettleDraw(roundId))
     IN /\ \A i \in ids : locks[BetRow(i)] \in {FREE, p}
        /\ locks' = [r \in Rows |->
             IF r = BankRow \/ r \in {BetRow(i) : i \in ids} THEN p ELSE locks[r]]
        /\ loc' = [loc EXCEPT ![p] =
             [roundId |-> roundId, adminBalanceBefore |-> game_bank.admin_balance_dos,
              loaded |-> ids, comp |-> comp, byPlayer |-> ByPlayer(bets, comp.payouts),
              marked |-> {}, credited |-> {}]]
  /\ pc' = [pc EXCEPT ![p] = "s_mark"]
  /\ UNCHANGED <<now, timing, db, fixed, limiter, picker, call, resp, hist>>

\* step 7: UPDATE bets SET settled=TRUE ... WHERE round_id=$1 AND settled=FALSE,
\* a new statement: it marks the unsettled bets committed by now; then the
\* winners' UPDATEs by id
SettleMark(p) ==
  /\ pc[p] = "s_mark"
  /\ LET ids == UnsettledOf(loc[p].roundId)
     IN /\ \A i \in ids : locks[BetRow(i)] \in {FREE, p}
        /\ locks' = [r \in Rows |-> IF r \in {BetRow(i) : i \in ids} THEN p ELSE locks[r]]
        /\ loc' = [loc EXCEPT ![p] = [@ EXCEPT !.marked = ids]]
  /\ pc' = [pc EXCEPT ![p] = "s_credit"]
  /\ UNCHANGED <<now, timing, db, fixed, limiter, picker, call, resp, hist>>

\* the players step 8 still has to credit: those with gain > 0
SettleToCredit(p) == {q \in DOMAIN loc[p].byPlayer : loc[p].byPlayer[q] > 0} \ loc[p].credited

\* step 8, one player: UPDATE players SET balance_dos = balance_dos + $1 (waits
\* for the player's row), INSERT INTO dos_ledger 'WIN'
SettleCredit(p) ==
  /\ pc[p] = "s_credit"
  /\ \E q \in SettleToCredit(p) :
       /\ locks[PlayerRow(q)] \in {FREE, p}
       /\ locks' = [locks EXCEPT ![PlayerRow(q)] = p]
       /\ loc' = [loc EXCEPT ![p] = [@ EXCEPT !.credited = @ \cup {q}]]
  /\ UNCHANGED <<now, timing, db, fixed, limiter, picker, call, pc, resp, hist>>

\* the tables with the writes p's transaction has made so far
SettlePlayersWritten(p) ==
  [q \in DOMAIN players |->
     IF q \in loc[p].credited
       THEN [players[q] EXCEPT !.balance_dos = @ + loc[p].byPlayer[q]]
       ELSE players[q]]
SettleLedgerWritten(p) ==
  dos_ledger (+) SetToBag({LedgerRow(q, "WIN", loc[p].byPlayer[q], loc[p].roundId) :
                             q \in loc[p].credited})
SettleBetsWritten(p) ==
  LET payouts == loc[p].comp.payouts IN
  [i \in DOMAIN bets |->
     LET marked == IF i \in loc[p].marked
                     THEN [bets[i] EXCEPT !.settled = TRUE, !.payout_dos = 0, !.category = NULL]
                     ELSE bets[i]
     IN IF i \in DOMAIN payouts
          THEN [marked EXCEPT !.payout_dos = payouts[i].amount, !.category = payouts[i].category]
          ELSE marked]

\* a step 9 that adds carryOut to carry_dos instead of replacing it
SettleBankAdded(p) ==
  [carry_dos |-> game_bank.carry_dos + loc[p].comp.carryOut,
   admin_balance_dos |-> loc[p].adminBalanceBefore + loc[p].comp.adminTake]
\* step 9: UPDATE game_bank SET carry_dos=$1, admin_balance_dos=$2
SettleBankWritten(p) ==
  [carry_dos |-> loc[p].comp.carryOut,
   admin_balance_dos |-> loc[p].adminBalanceBefore + loc[p].comp.adminTake]

\* steps 9 and 10 and COMMIT: UPDATE game_bank, the upsert of the rounds row
SettleCommit(p) ==
  /\ pc[p] = "s_credit"
  /\ SettleToCredit(p) = {}
  /\ LET c == loc[p].comp
         roundId == loc[p].roundId
     IN /\ players' = SettlePlayersWritten(p)
        /\ dos_ledger' = SettleLedgerWritten(p)
        /\ bets' = SettleBetsWritten(p)
        /\ game_bank' = SettleBankWritten(p)
        /\ rounds' = [r \in DOMAIN rounds \cup {roundId} |->
             IF r = roundId
               THEN [draw |-> SettleDraw(roundId), total_bets_dos |-> c.totalBets,
                     pot_total_dos |-> c.potTotal, admin_take_dos |-> c.adminTake,
                     carry_in_dos |-> c.carryIn, carry_out_dos |-> c.carryOut]
               ELSE rounds[r]]
        /\ settleLog' = settleLog \cup
             {[proc |-> p, roundId |-> roundId, totalBets |-> c.totalBets,
               carryIn |-> c.carryIn, adminTake |-> c.adminTake, carryOut |-> c.carryOut,
               distributed |-> c.distributed, loaded |-> loc[p].loaded,
               marked |-> loc[p].marked]}
  /\ locks' = Release(p)
  /\ Finish(p, Reply(200, "settled"))
  /\ UNCHANGED <<now, timing, gift_codes, apidb, fixed, limiter, picker, call, betCommitMs, settleFails>>

\* what the catch block leaves of the tables: ROLLBACK undoes the transaction;
\* SettleKeepCredits is a catch block without ROLLBACK after autocommitted credits
SettleKeepCredits(p) ==
  IF pc[p] = "s_credit"
    THEN <<SettlePlayersWritten(p), SettleLedgerWritten(p), bets, game_bank, rounds, gift_codes, apidb>>
    ELSE db
SettleRollback(p) == db

\* a statement of the transaction throws: catch, ROLLBACK, 500
SettleFail(p) ==
  /\ pc[p] \in {"s_already", "s_bank", "s_mark", "s_credit"}
  /\ LET left == SettleRollback(p)
     IN /\ players' = left[1]
        /\ dos_ledger' = left[2]
        /\ bets' = left[3]
        /\ game_bank' = left[4]
        /\ rounds' = left[5]
  /\ settleFails' = settleFails \cup
       {[proc |-> p, roundId |-> loc[p].roundId,
         credited |-> IF pc[p] = "s_credit" THEN loc[p].credited ELSE {}]}
  /\ locks' = Release(p)
  /\ Finish(p, Reply(500, "error"))
  /\ UNCHANGED <<now, timing, gift_codes, apidb, fixed, limiter, picker, call, betCommitMs, settleLog>>

\* ----------------------------------- POST /api/bet (src/apps/api/server.js)
\* the timing check and the validation, before the transaction
\* normalizeNums: unique and sorted
normalizeNums(nums) == {nums[i] : i \in DOMAIN nums}
\* NOT (nn.length < 4 || nn.length > 8)
ApiNumsCountOk(nn) == ~(Cardinality(nn) < 4 \/ Cardinality(nn) > 8)
\* NOT nn.some((n) => n < 1 || n > 20)
ApiNumsRangeOk(nn) == ~(\E n \in nn : n < 1 \/ n > 20)

ApiBetCheckOf(p, bodies) ==
  /\ pc[p] = "start"
  /\ server = "api"
  /\ \E body \in bodies :
       LET round == getRoundInfo(now)
           nn == normalizeNums(body.combo.nums)
       IN
       IF ~round.betsOpen
         THEN Finish(p, BetsClosedReply(round))
       ELSE IF ~BetAmountValid(body.amount)
         THEN Finish(p, Reply(400, "amount invalid"))
       ELSE IF ~ApiNumsCountOk(nn)
         THEN Finish(p, Reply(400, "nums length must be 4..8 unique"))
       ELSE IF ~ApiNumsRangeOk(nn)
         THEN Finish(p, Reply(400, "nums must be 1..20"))
       ELSE IF ~ChanceOk(body.combo.chance)
         THEN Finish(p, Reply(400, "chance must be 1..5"))
       ELSE /\ pc' = [pc EXCEPT ![p] = "ab_lock"]
            /\ loc' = [loc EXCEPT ![p] =
                 [playerId |-> body.playerId, amount |-> body.amount,
                  cost |-> BetCost(body.amount),
                  nums |-> nn, chance |-> body.combo.chance,
                  roundId |-> round.roundId, balanceBefore |-> 0]]
            /\ UNCHANGED resp
  /\ UNCHANGED <<now, timing, db, locks, fixed, limiter, picker, call, hist>>

ApiBetCheck(p) == ApiBetCheckOf(p, BetBodies)
ApiBetCheckAny(p) == ApiBetCheckOf(p, AnyBetBodies)

\* BEGIN; SELECT ... FOR UPDATE; the rejections return without ROLLBACK: the
\* connection goes back to the pool inside its transaction, the row lock held
ApiBetLock(p) ==
  /\ pc[p] = "ab_lock"
  /\ LET pid == loc[p].playerId IN
     IF pid \notin DOMAIN players
       THEN Finish(p, Reply(404, "player not found")) /\ UNCHANGED locks
     ELSE /\ locks[PlayerRow(pid)] \in {FREE, p}
          /\ locks' = BetLockPlayer(p, pid)
          /\ IF players[pid].status # "ACTIVE"
               THEN Finish(p, Reply(403, "player not active"))
             ELSE IF NumLess(players[pid].balance_dos, loc[p].amount)
               THEN Finish(p, Reply(409, "insufficient balance"))
             ELSE /\ pc' = [pc EXCEPT ![p] = "ab_write"]
                  /\ loc' = [loc EXCEPT ![p] =
                       [@ EXCEPT !.balanceBefore = players[pid].balance_dos]]
                  /\ UNCHANGED resp
  /\ UNCHANGED <<now, timing, db, fixed, limiter, picker, call, hist>>

\* UPDATE players SET balance_dos = balance_dos - $1; INSERT INTO bets;
\* INSERT INTO dos_ledger; COMMIT
\* an amount that is no integer is no BIGINT: the UPDATE throws; catch,
\* ROLLBACK, 500. For an integer amount loc[p].cost is the amount.
ApiBetCommit(p) ==
  /\ pc[p] = "ab_write"
  /\ IF ~NumIsInteger(loc[p].amount)
       THEN UNCHANGED <<players, bets, dos_ledger, betCommitMs>>
            /\ Finish(p, Reply(500, "error"))
       ELSE LET pid == loc[p].playerId
            IN /\ players' = [players EXCEPT ![pid].balance_dos = @ - loc[p].cost]
               /\ bets' = bets @@ (p :> [player_id |-> pid, round_id |-> loc[p].roundId,
                                         nums |-> loc[p].nums, chance |-> loc[p].chance,
                                         amount |-> loc[p].cost, settled |-> FALSE,
                                         payout_dos |-> 0, category |-> NULL])
               /\ dos_ledger' = dos_ledger (+)
                    SetToBag({LedgerRow(pid, "BET", 0 - loc[p].cost, p)})
               /\ betCommitMs' = betCommitMs @@ (p :> now)
               /\ Finish(p, Reply(200, "ok"))
  /\ locks' = Release(p)
  /\ UNCHANGED <<now, timing, game_bank, rounds, apidb, gift_codes, fixed, limiter, picker, call, settleLog, settleFails>>

\* -------------------------------- POST /api/settle (src/apps/api/server.js)
WIN_POOL_PERCENT == 65
CARRY_PERCENT == 10
ApiCatOrder == <<"4+1", "4+0", "3+1", "3+0", "2+1", "2+0", "1+1">>
ApiCats == {ApiCatOrder[i] : i \in DOMAIN ApiCatOrder}
\* POT_SHARES of src/apps/api/server.js, in percent
ApiPOT_SHARES == [c \in ApiCats |->
  CASE c = "4+1" -> 35 [] c = "4+0" -> 15 [] c = "3+1" -> 18 [] c = "3+0" -> 10
    [] c = "2+1" -> 10 [] c = "2+0" -> 7 [] c = "1+1" -> 5]

\* aNums and bNums hold no number twice
countMatches(aNums, bNums) == Cardinality(aNums \cap bNums)

\* a classification without the line for one match and the chance
prizeCategoryNoSingle(matches, chanceOk) ==
  LET c == IF chanceOk THEN 1 ELSE 0
  IN CASE matches >= 4 /\ c = 1 -> "4+1"
       [] matches >= 4 /\ c = 0 -> "4+0"
       [] matches = 3 /\ c = 1 -> "3+1"
       [] matches = 3 /\ c = 0 -> "3+0"
       [] matches = 2 /\ c = 1 -> "2+1"
       [] matches = 2 /\ c = 0 -> "2+0"
       [] OTHER -> NULL

prizeCategory(matches, chanceOk) ==
  LET c == IF chanceOk THEN 1 ELSE 0
  IN CASE matches >= 4 /\ c = 1 -> "4+1"
       [] matches >= 4 /\ c = 0 -> "4+0"
       [] matches = 3 /\ c = 1 -> "3+1"
       [] matches = 3 /\ c = 0 -> "3+0"
       [] matches = 2 /\ c = 1 -> "2+1"
       [] matches = 2 /\ c = 0 -> "2+0"
       [] matches = 1 /\ c = 1 -> "1+1"
       [] OTHER -> NULL

\* the split, the winners by category and the payouts, from the pot and the
\* loaded bets; Math.floor(winPool * share) is the floor of the exact product
\* for winPool < 180 (at 180 the double 180 * 0.35 is below 63)
ApiSettleCompute(rows, ids, pot, outcome) ==
  LET winPool == FloorPct(pot, WIN_POOL_PERCENT)
      carry == FloorPct(pot, CARRY_PERCENT)
      adminTake == pot - winPool - carry
      open == {i \in ids : ~rows[i].settled}
      catOf == [i \in open |->
                  prizeCategory(countMatches(rows[i].nums, outcome.nums),
                                rows[i].chance = outcome.chance)]
      winners == [c \in ApiCats |-> {i \in open : catOf[i] = c}]
      catPool == [c \in ApiCats |-> FloorPct(winPool, ApiPOT_SHARES[c])]
      totalStake == [c \in ApiCats |->
                       IF SumAmount(rows, winners[c]) = 0 THEN 1 ELSE SumAmount(rows, winners[c])]
      paidIds == {i \in open : catOf[i] # NULL}
      payouts == [i \in paidIds |->
                    [amount |-> (catPool[catOf[i]] * rows[i].amount) \div totalStake[catOf[i]],
                     category |-> catOf[i]]]
  IN [pot |-> pot, winPool |-> winPool, carry |-> carry, adminTake |-> adminTake,
      payouts |-> payouts, distributed |-> SumAmount(payouts, paidIds)]

\* the validation; BEGIN; the anti double-settle SELECT of round_results; the
\* SELECT SUM(amount) of the round's bets. No check of the round's end.
ApiSettleBegin(p) ==
  /\ pc[p] = "start"
  /\ server = "api"
  /\ \E body \in SettleBodies :
       IF ~body.given
         THEN Finish(p, Reply(400, "roundId required"))
       ELSE IF body.roundId \in DOMAIN round_results
         THEN Finish(p, Reply(409, "already settled"))
       ELSE /\ pc' = [pc EXCEPT ![p] = "as_insert"]
            /\ loc' = [loc EXCEPT ![p] =
                 [roundId |-> body.roundId,
                  pot |-> SumAmount(bets, {i \in DOMAIN bets : bets[i].round_id = body.roundId})]]
            /\ UNCHANGED resp
  /\ UNCHANGED <<now, timing, db, locks, fixed, limiter, picker, call, hist>>

\* INSERT INTO round_results (waits for an uncommitted INSERT of the key; a
\* committed one makes it throw, see ApiSettleFail); SELECT the round's bets
\* FOR UPDATE, a new statement; the winners and the payouts
ApiSettleInsert(p) ==
  /\ pc[p] = "as_insert"
  /\ LET roundId == loc[p].roundId
         ids == {i \in DOMAIN bets : bets[i].round_id = roundId}
         comp == ApiSettleCompute(bets, ids, loc[p].pot, drawOf[roundId])
     IN /\ roundId \notin DOMAIN round_results
        /\ locks[ResultRow(roundId)] \in {FREE, p}
        /\ \A i \in ids : locks[BetRow(i)] \in {FREE, p}
        /\ locks' = [r \in Rows |->
             IF r = ResultRow(roundId) \/ r \in {BetRow(i) : i \in ids} THEN p ELSE locks[r]]
        /\ loc' = [loc EXCEPT ![p] =
             [roundId |-> roundId, pot |-> loc[p].pot, loaded |-> ids, comp |-> comp,
              byPlayer |-> ByPlayer(bets, comp.payouts), credited |-> {}]]
  /\ pc' = [pc EXCEPT ![p] = "as_credit"]
  /\ UNCHANGED <<now, timing, db, fixed, limiter, picker, call, resp, hist>>

\* one player with amount > 0: UPDATE players SET balance_dos = balance_dos + $1
\* (waits for the player's row), INSERT INTO dos_ledger 'WIN'
ApiSettleCredit(p) ==
  /\ pc[p] = "as_credit"
  /\ \E q \in SettleToCredit(p) :
       /\ locks[PlayerRow(q)] \in {FREE, p}
       /\ locks' = [locks EXCEPT ![PlayerRow(q)] = p]
       /\ loc' = [loc EXCEPT ![p] = [@ EXCEPT !.credited = @ \cup {q}]]
  /\ UNCHANGED <<now, timing, db, fixed, limiter, picker, call, pc, resp, hist>>

\* UPDATE bets SET settled = TRUE, payout_dos = $1 for every loaded bet; the
\* two INSERT INTO admin_ledger; COMMIT
ApiSettleCommit(p) ==
  /\ pc[p] = "as_credit"
  /\ SettleToCredit(p) = {}
  /\ hasAdminLedger
  /\ LET c == loc[p].comp
         roundId == loc[p].roundId
     IN /\ players' = SettlePlayersWritten(p)
        /\ dos_ledger' = SettleLedgerWritten(p)
        /\ bets' = [i \in DOMAIN bets |->
             IF i \in loc[p].loaded
               THEN [bets[i] EXCEPT !.settled = TRUE,
                       !.payout_dos = IF i \in DOMAIN c.payouts THEN c.payouts[i].amount ELSE 0]
               ELSE bets[i]]
        /\ round_results' = round_results @@ (roundId :> [outcome |-> drawOf[roundId]])
        /\ admin_ledger' = admin_ledger (+) SetToBag({
             [type |-> "CARRY", amount |-> c.carry, ref |-> roundId],
             [type |-> "ADMIN_TAKE", amount |-> c.adminTake, ref |-> roundId]})
        /\ settleLog' = settleLog \cup
             {[proc |-> p, roundId |-> roundId, totalBets |-> c.pot, carryIn |-> 0,
               adminTake |-> c.adminTake, carryOut |-> c.carry,
               distributed |-> c.distributed, loaded |-> loc[p].loaded,
               marked |-> loc[p].loaded]}
  /\ locks' = Release(p)
  /\ Finish(p, Reply(200, "settled"))
  /\ UNCHANGED <<now, timing, game_bank, rounds, gift_codes, fixed, limiter, picker, call, betCommitMs, settleFails>>

\* a statement of the transaction throws (the INSERT of a round_id that is
\* there, an INSERT INTO admin_ledger without the table, any database error):
\* catch, ROLLBACK, 500
ApiSettleFail(p) ==
  /\ pc[p] \in {"as_insert", "as_credit"}
  /\ settleFails' = settleFails \cup
       {[proc |-> p, roundId |-> loc[p].roundId,
         credited |-> IF pc[p] = "as_credit" THEN loc[p].credited ELSE {}]}
  /\ locks' = Release(p)
  /\ Finish(p, Reply(500, "error"))
  /\ UNCHANGED <<now, timing, db, fixed, limiter, picker, call, betCommitMs, settleLog>>

\* c.release() of a connection left inside a transaction: the pool closes the
\* idle connection, or the next request that gets it ends the transaction;
\* either way the transaction, which wrote nothing, is over and its locks go
PoolRecycle(p) ==
  /\ pc[p] = "done"
  /\ \E r \in Rows : locks[r] = p
  /\ locks' = Release(p)
  /\ UNCHANGED <<now, timing, db, fixed, limiter, picker, call, pc, loc, resp, hist>>

\* --------------------------------------- POST /api/player/signup (server.js)
SignupBodies == {Carol, Alice, <<"a", "l">>}
\* NOT (username.length < 3)
SignupUsernameValid(username) == ~(Len(username) < 3)
\* the id the serial column gives the next row
NextPlayerId == Cardinality(DOMAIN players) + 1

\* the validation and the first statement, INSERT INTO players, which commits
\* on its own; a duplicate username makes it throw (UNIQUE): 409
SignupInsertOf(p, username) ==
  /\ pc[p] = "start"
  /\ server = "root"
  /\ IF ~SignupUsernameValid(username)
       THEN Finish(p, Reply(400, "username invalide")) /\ UNCHANGED players
     ELSE IF \E q \in DOMAIN players : players[q].username = username
       THEN Finish(p, Reply(409, "username deja utilise")) /\ UNCHANGED players
     ELSE /\ players' = players @@ (NextPlayerId :>
               [username |-> username, balance_dos |-> SIGNUP_BONUS_DOS, status |-> "ACTIVE"])
          /\ pc' = [pc EXCEPT ![p] = "u_ledger"]
          /\ loc' = [loc EXCEPT ![p] = [playerId |-> NextPlayerId]]
          /\ UNCHANGED resp
  /\ UNCHANGED <<now, timing, dos_ledger, bets, game_bank, rounds, apidb, gift_codes, locks, fixed, limiter, picker, call, hist>>

SignupInsert(p) == \E username \in SignupBodies : SignupInsertOf(p, username)

\* the second statement, INSERT INTO dos_ledger 'BONUS_SIGNUP', which commits on its own
SignupLedger(p) ==
  /\ pc[p] = "u_ledger"
  /\ dos_ledger' = IF SIGNUP_BONUS_DOS > 0
       THEN dos_ledger (+) SetToBag({LedgerRow(loc[p].playerId, "BONUS_SIGNUP", SIGNUP_BONUS_DOS, "signup")})
       ELSE dos_ledger
  /\ Finish(p, Reply(200, "ok"))
  /\ UNCHANGED <<now, timing, players, bets, game_bank, rounds, apidb, gift_codes, locks, fixed, limiter, picker, call, hist>>

\* the second statement throws: 500, the players row stays
SignupLedgerFail(p) ==
  /\ pc[p] = "u_ledger"
  /\ Finish(p, Reply(500, "error"))
  /\ UNCHANGED <<now, timing, db, locks, fixed, limiter, picker, call, hist>>

\* ----------------------- POST /api/player/signup (src/apps/api/server.js)
\* usernames of requests: a new one, a taken one, the empty one
ApiSignupBodies == {Carol, Alice, <<>>}

\* one transaction: INSERT INTO players (username, 0) ON CONFLICT (username)
\* DO UPDATE SET username = EXCLUDED.username RETURNING id (the row of the
\* username, new or there already, locked: it waits for the row's lock);
\* UPDATE players SET balance_dos = balance_dos + bonus; INSERT INTO
\* dos_ledger 'BONUS_SIGNUP'; COMMIT
ApiSignupOf(p, username) ==
  /\ pc[p] = "start"
  /\ server = "api"
  /\ IF username = <<>>
       THEN Finish(p, Reply(400, "username required")) /\ UNCHANGED <<players, dos_ledger>>
     ELSE LET there == {q \in DOMAIN players : players[q].username = username}
              id == IF there = {} THEN NextPlayerId ELSE CHOOSE q \in there : TRUE
              row == IF there = {}
                       THEN [username |-> username, balance_dos |-> 0, status |-> "ACTIVE"]
                       ELSE players[id]
              credited == IF SIGNUP_BONUS_DOS > 0
                            THEN [row EXCEPT !.balance_dos = @ + SIGNUP_BONUS_DOS]
                            ELSE row
          IN /\ there # {} => locks[PlayerRow(id)] = FREE
             /\ players' = IF there = {} THEN players @@ (id :> credited)
                                         ELSE [players EXCEPT ![id] = credited]
             /\ dos_ledger' = IF SIGNUP_BONUS_DOS > 0
                  THEN dos_ledger (+)
                         SetToBag({LedgerRow(id, "BONUS_SIGNUP", SIGNUP_BONUS_DOS, "signup")})
                  ELSE dos_ledger
             /\ Finish(p, Reply(200, "ok"))
  /\ UNCHANGED <<now, timing, bets, game_bank, rounds, apidb, gift_codes, locks, fixed, limiter, picker, call, hist>>

ApiSignup(p) == \E username \in ApiSignupBodies : ApiSignupOf(p, username)

\* ------------------------------------------- redeemRateLimit (server.js)
MaxAttempts == 8
\* the client IPs of getClientIp(req)
Ips == {"ip1", "ip2"}
\* the instants at which redeem requests arrive
LimInstants == {0, 500, 1000, 60000, 60500}
windowMs == 60000
max == 5

\* cur.count > max: the limiter one attempt late
LimiterFullLate(count) == count > max
\* cur.count >= max
LimiterFull(count) == count >= max
\* now > cur.resetAtMs
LimiterExpired(nowMs, resetAtMs) == nowMs > resetAtMs

\* time passes to a later instant of LimInstants
LimTick ==
  /\ \E t \in LimInstants : t > now /\ now' = t
  /\ UNCHANGED <<timing, db, locks, fixed, limiter, picker, call, pc, loc, resp, hist>>

\* the middleware on a request from ip: next() or 429 with Retry-After
redeemRateLimit(ip) ==
  /\ Len(limLog) < MaxAttempts
  /\ IF ip \notin DOMAIN redeemLimiter \/ LimiterExpired(now, redeemLimiter[ip].resetAtMs)
       THEN /\ redeemLimiter' = [x \in DOMAIN redeemLimiter \cup {ip} |->
                 IF x = ip THEN [count |-> 1, resetAtMs |-> now + windowMs]
                           ELSE redeemLimiter[x]]
            /\ limLog' = Append(limLog,
                 [ip |-> ip, at |-> now, next |-> TRUE, code |-> 0, retryAfterSec |-> 0])
     ELSE IF LimiterFull(redeemLimiter[ip].count)
       THEN /\ UNCHANGED redeemLimiter
            /\ limLog' = Append(limLog,
                 [ip |-> ip, at |-> now, next |-> FALSE, code |-> 429,
                  retryAfterSec |-> CeilDiv(redeemLimiter[ip].resetAtMs - now, 1000)])
     ELSE /\ redeemLimiter' = [redeemLimiter EXCEPT ![ip].count = @ + 1]
          /\ limLog' = Append(limLog,
               [ip |-> ip, at |-> now, next |-> TRUE, code |-> 0, retryAfterSec |-> 0])
  /\ UNCHANGED <<now, timing, db, locks, fixed, picker, call, pc, loc, resp, hist>>

\* now >= v.resetAtMs: the sweeper one millisecond early
SweepExpiredAt(nowMs, resetAtMs) == nowMs >= resetAtMs
\* now > v.resetAtMs
SweepExpired(nowMs, resetAtMs) == nowMs > resetAtMs

\* setInterval(..., 60_000): the entries past their resetAtMs are deleted
LimiterSweep ==
  /\ \E ip \in DOMAIN redeemLimiter : SweepExpired(now, redeemLimiter[ip].resetAtMs)
  /\ redeemLimiter' = [ip \in {x \in DOMAIN redeemLimiter :
                                 ~SweepExpired(now, redeemLimiter[x].resetAtMs)}
                         |-> redeemLimiter[ip]]
  /\ UNCHANGED <<now, timing, db, locks, fixed, limLog, picker, call, pc, loc, resp, hist>>

\* --------------------------------------- POST /api/player/redeem (server.js)
\* the requests redeemRateLimit admits, with a well-formed code
RedeemBodies == [playerId : InitPlayers, code : Codes]
\* row.expires_at && new Date(row.expires_at).getTime() < Date.now(); an
\* expires_at of 0 stands for NULL
RedeemExpired(row, nowMs) == row.expires_at # 0 /\ row.expires_at < nowMs
\* row.status !== "ACTIVE" is answered 409; RedeemAnyStatus is the handler
\* without the check
RedeemAnyStatus(row) == TRUE
RedeemCodeActive(row) == row.status = "ACTIVE"

\* a code as typed is a sequence of characters
Letters == {"A", "B", "C", "D", "E", "F", "G", "H", "I", "J", "K", "L", "M", "N",
            "O", "P", "Q", "R", "S", "T", "U", "V", "W", "X", "Y", "Z"}
Digits == {"0", "1", "2", "3", "4", "5", "6", "7", "8", "9"}
\* ALPHABET of tickets.js: no O, 0, I, 1
ALPHABET == (Letters \cup Digits) \ {"O", "0", "I", "1"}
\* toUpperCase() of one character (of the lower-case letters sent here)
UpperChar(ch) == CASE ch = "a" -> "A" [] ch = "o" -> "O" [] OTHER -> ch
RECURSIVE TrimLeft(_)
TrimLeft(str) == IF str # <<>> /\ Head(str) = " " THEN TrimLeft(Tail(str)) ELSE str
RECURSIVE TrimRight(_)
TrimRight(str) ==
  IF str # <<>> /\ str[Len(str)] = " " THEN TrimRight(SubSeq(str, 1, Len(str) - 1)) ELSE str
\* String(req.body?.code || "").trim().toUpperCase()
NormalCode(raw) ==
  LET t == TrimRight(TrimLeft(raw)) IN [i \in DOMAIN t |-> UpperChar(t[i])]
\* /^[A-Z0-9]{12}$/.test(code)
CodeFormatOk(code) ==
  Len(code) = 12 /\ \A i \in DOMAIN code : code[i] \in Letters \cup Digits
\* the code generateTicketCode has issued for gift code G1
IssuedCode == <<"A", "B", "C", "D", "E", "F", "G", "H", "J", "K", "L", "M">>
\* hashTicketCode(code): the hash of the issued code is G1's code_hash
CodeHash(code) == IF code = IssuedCode THEN "G1" ELSE "none"
\* the first character of the issued code replaced
WithFirst(ch) == <<ch>> \o Tail(IssuedCode)
\* codes as typed: the issued one, in lower case and padded, with O, 0, I, 1,
\* with a character outside A-Z0-9, of 11 and of 13 characters, and none
RawCodes ==
  {IssuedCode, <<" ">> \o WithFirst("a") \o <<" ">>,
   WithFirst("O"), WithFirst("o"), WithFirst("0"), WithFirst("I"), WithFirst("1"),
   WithFirst("-"), Tail(IssuedCode), IssuedCode \o <<"N">>, <<>>}
\* requests with a code as typed; playerId 0 stands for a missing playerId
RawRedeemBodies == [playerId : {0, 1}, raw : RawCodes]

\* the format checks, then the status check, a plain SELECT on the connection
\* before BEGIN; a body of RedeemBodies names a well-formed code by its hash
RedeemCheckOf(p, bodies) ==
  /\ pc[p] = "start"
  /\ \E body \in bodies :
       LET typed == "raw" \in DOMAIN body
           code == IF typed THEN NormalCode(body.raw) ELSE <<>>
       IN
       IF body.playerId = 0
         THEN Finish(p, Reply(400, "playerId requis"))
       ELSE IF typed /\ ~CodeFormatOk(code)
         THEN Finish(p, Reply(400, "code invalide (12)"))
       ELSE IF body.playerId \notin DOMAIN players
         THEN Finish(p, Reply(404, "player not found"))
       ELSE IF players[body.playerId].status # "ACTIVE"
         THEN Finish(p, Reply(403, "player not active"))
       ELSE /\ pc' = [pc EXCEPT ![p] = "r_code"]
            /\ loc' = [loc EXCEPT ![p] =
                 [playerId |-> body.playerId,
                  code |-> IF typed THEN CodeHash(code) ELSE body.code, value |-> 0]]
            /\ UNCHANGED resp
  /\ UNCHANGED <<now, timing, db, locks, fixed, limiter, picker, call, hist>>

RedeemCheck(p) == RedeemCheckOf(p, RedeemBodies)
\* the requests with a code as typed
RedeemCheckRaw(p) == RedeemCheckOf(p, RawRedeemBodies)

\* BEGIN; SELECT ... FROM gift_codes WHERE code_hash=$1 FOR UPDATE (waits for the
\* code's row); the three rejections, each after ROLLBACK
RedeemLockCode(p) ==
  /\ pc[p] = "r_code"
  /\ LET c == loc[p].code IN
     IF c \notin DOMAIN gift_codes
       THEN Finish(p, Reply(404, "code inexistant")) /\ UNCHANGED locks
     ELSE /\ locks[CodeRow(c)] \in {FREE, p}
          /\ IF ~RedeemCodeActive(gift_codes[c])
               THEN Finish(p, Reply(409, "code deja utilise/desactive")) /\ UNCHANGED locks
             ELSE IF RedeemExpired(gift_codes[c], now)
               THEN Finish(p, Reply(409, "code expire")) /\ UNCHANGED locks
             ELSE /\ locks' = [locks EXCEPT ![CodeRow(c)] = p]
                  /\ pc' = [pc EXCEPT ![p] = "r_credit"]
                  /\ loc' = [loc EXCEPT ![p] = [@ EXCEPT !.value = gift_codes[c].value_dos]]
                  /\ UNCHANGED resp
  /\ UNCHANGED <<now, timing, db, fixed, limiter, picker, call, hist>>

\* UPDATE players SET balance_dos = balance_dos + $2 (waits for the player's
\* row); UPDATE gift_codes SET status='REDEEMED'; INSERT INTO dos_ledger; COMMIT
RedeemCommit(p) ==
  /\ pc[p] = "r_credit"
  /\ LET pid == loc[p].playerId
         c == loc[p].code
     IN /\ locks[PlayerRow(pid)] \in {FREE, p}
        /\ players' = [players EXCEPT ![pid].balance_dos = @ + loc[p].value]
        /\ gift_codes' = [gift_codes EXCEPT ![c] =
             [@ EXCEPT !.status = "REDEEMED", !.redeemed_by = pid]]
        /\ dos_ledger' = dos_ledger (+) SetToBag({LedgerRow(pid, "REDEEM", loc[p].value, c)})
  /\ locks' = Release(p)
  /\ Finish(p, Reply(200, "ok"))
  /\ UNCHANGED <<now, timing, bets, game_bank, rounds, apidb, fixed, limiter, picker, call, hist>>

\* a statement of the transaction throws: catch, ROLLBACK, 500
RedeemFail(p) ==
  /\ pc[p] = "r_credit"
  /\ locks' = Release(p)
  /\ Finish(p, Reply(500, "error"))
  /\ UNCHANGED <<now, timing, db, fixed, limiter, picker, call, hist>>

\* --------------------------- POST /api/admin/players/:id/add-dos (part_002)
AddDosBodies == [id : {1}, amount : {5, 0}]
\* NOT (amount <= 0); amount is a finite number here
AddDosAmountValid(amount) == ~(amount <= 0)

\* the validation; BEGIN; SELECT ... FOR UPDATE; 404, or 403 for a SUSPENDED
\* player, each after ROLLBACK
AddDosBegin(p) ==
  /\ pc[p] = "start"
  /\ \E body \in AddDosBodies :
       IF ~AddDosAmountValid(body.amount)
         THEN Finish(p, Reply(400, "amount > 0 requis")) /\ UNCHANGED locks
       ELSE IF body.id \notin DOMAIN players
         THEN Finish(p, Reply(404, "joueur introuvable")) /\ UNCHANGED locks
       ELSE /\ locks[PlayerRow(body.id)] \in {FREE, p}
            /\ IF players[body.id].status = "SUSPENDED"
                 THEN Finish(p, Reply(403, "joueur suspendu")) /\ UNCHANGED locks
                 ELSE /\ locks' = [locks EXCEPT ![PlayerRow(body.id)] = p]
                      /\ pc' = [pc EXCEPT ![p] = "add_write"]
                      /\ loc' = [loc EXCEPT ![p] = [playerId |-> body.id, amount |-> body.amount]]
                      /\ UNCHANGED resp
  /\ UNCHANGED <<now, timing, db, fixed, limiter, picker, call, hist>>

\* UPDATE players SET balance_dos = balance_dos + $2; INSERT 'ADMIN_ADD'; COMMIT
AddDosCommit(p) ==
  /\ pc[p] = "add_write"
  /\ LET pid == loc[p].playerId
     IN /\ players' = [players EXCEPT ![pid].balance_dos = @ + loc[p].amount]
        /\ dos_ledger' = dos_ledger (+) SetToBag({LedgerRow(pid, "ADMIN_ADD", loc[p].amount, p)})
  /\ locks' = Release(p)
  /\ Finish(p, Reply(200, "ok"))
  /\ UNCHANGED <<now, timing, bets, game_bank, rounds, apidb, gift_codes, fixed, limiter, picker, call, hist>>

\* --------------------------- POST /api/admin/players/:id/set-dos (part_002)
SetDosBodies == [id : {1}, balance : {0, 5, -5}]
\* NOT (balance < 0); balance is a finite number here
SetDosBalanceValid(balance) == ~(balance < 0)

\* the validation; BEGIN; SELECT ... FOR UPDATE; 404 after ROLLBACK
SetDosBegin(p) ==
  /\ pc[p] = "start"
  /\ \E body \in SetDosBodies :
       IF ~SetDosBalanceValid(body.balance)
         THEN Finish(p, Reply(400, "balance >= 0 requis")) /\ UNCHANGED locks
       ELSE IF body.id \notin DOMAIN players
         THEN Finish(p, Reply(404, "joueur introuvable")) /\ UNCHANGED locks
       ELSE /\ locks[PlayerRow(body.id)] \in {FREE, p}
            /\ locks' = [locks EXCEPT ![PlayerRow(body.id)] = p]
            /\ pc' = [pc EXCEPT ![p] = "set_write"]
            /\ loc' = [loc EXCEPT ![p] =
                 [playerId |-> body.id, balance |-> body.balance,
                  oldBal |-> players[body.id].balance_dos]]
            /\ UNCHANGED resp
  /\ UNCHANGED <<now, timing, db, fixed, limiter, picker, call, hist>>

\* UPDATE players SET balance_dos=$2; INSERT 'ADMIN_SET' with delta; COMMIT
SetDosCommit(p) ==
  /\ pc[p] = "set_write"
  /\ LET pid == loc[p].playerId
         delta == loc[p].balance - loc[p].oldBal
     IN /\ players' = [players EXCEPT ![pid].balance_dos = loc[p].balance]
        /\ dos_ledger' = dos_ledger (+) SetToBag({LedgerRow(pid, "ADMIN_SET", delta, p)})
  /\ locks' = Release(p)
  /\ Finish(p, Reply(200, "ok"))
  /\ UNCHANGED <<now, timing, bets, game_bank, rounds, apidb, gift_codes, fixed, limiter, picker, call, hist>>

\* ---------------------------- POST /api/admin/players/:id/status (part_002)
StatusBodies == [id : {1}, status : {"SUSPENDED", "ACTIVE"}]

\* BEGIN; SELECT ... FOR UPDATE; 404 after ROLLBACK
StatusBegin(p) ==
  /\ pc[p] = "start"
  /\ \E body \in StatusBodies :
       IF body.id \notin DOMAIN players
         THEN Finish(p, Reply(404, "joueur introuvable")) /\ UNCHANGED locks
       ELSE /\ locks[PlayerRow(body.id)] \in {FREE, p}
            /\ locks' = [locks EXCEPT ![PlayerRow(body.id)] = p]
            /\ pc' = [pc EXCEPT ![p] = "status_write"]
            /\ loc' = [loc EXCEPT ![p] = [playerId |-> body.id, status |-> body.status]]
            /\ UNCHANGED resp
  /\ UNCHANGED <<now, timing, db, fixed, limiter, picker, call, hist>>

\* UPDATE players SET status=$2; INSERT 'ADMIN_STATUS' with amount 0; COMMIT
StatusCommit(p) ==
  /\ pc[p] = "status_write"
  /\ LET pid == loc[p].playerId
     IN /\ players' = [players EXCEPT ![pid].status = loc[p].status]
        /\ dos_ledger' = dos_ledger (+) SetToBag({LedgerRow(pid, "ADMIN_STATUS", 0, p)})
  /\ locks' = Release(p)
  /\ Finish(p, Reply(200, "ok"))
  /\ UNCHANGED <<now, timing, bets, game_bank, rounds, apidb, gift_codes, fixed, limiter, picker, call, hist>>

\* a statement of an admin transaction throws: catch, ROLLBACK, 500
AdminFail(p) ==
  /\ pc[p] \in {"add_write", "set_write", "status_write"}
  /\ locks' = Release(p)
  /\ Finish(p, Reply(500, "error"))
  /\ UNCHANGED <<now, timing, db, fixed, limiter, picker, call, hist>>

\* ------------------------------------------- PUT /api/admin/config (server.js)
\* A Number is a double. The integers below Two53Code - 1 stand for themselves
\* (only small ones arise), Two53Code - 1 stands for 2^53 - 1, and
\* Two53Code + m stands for the double 2^53 + 2 m: from 2^53 on the doubles are
\* 2 apart. The order of the integers is the order of the doubles they stand for.
Two53Code == 1000000000

\* x - 1 in double arithmetic: exact up to 2^53; above, 2^53 + 2 m - 1 lies
\* halfway between two doubles and rounds to the one of even mantissa
JsMinusOne(x) ==
  IF x <= Two53Code THEN x - 1
  ELSE IF (x - Two53Code) % 2 = 1 THEN x - 1 ELSE x

JsMax(a, b) == IF a >= b THEN a ELSE b

\* Number(req.body?.field): NaN (missing, not a number) or the fraction n / d
NaN == [nan |-> TRUE, n |-> 0, d |-> 1]
Finite(n, d) == [nan |-> FALSE, n |-> n, d |-> d]
\* Math.floor of a finite Number
JsFloor(x) == x.n \div x.d

\* the values of a field: missing, too small, fractional, plain, too large
ConfigRoundSeconds == {NaN, Finite(0 - 5, 1), Finite(91, 2), Finite(600, 1),
                       Finite(Two53Code + 2, 1)}
ConfigCloseBetsAt == {NaN, Finite(0, 1), Finite(41, 2), Finite(700, 1),
                      Finite(Two53Code + 2, 1)}
ConfigAnchorMs == {NaN, Finite(2001, 2)}
ConfigBodies ==
  [roundSeconds : ConfigRoundSeconds, closeBetsAt : ConfigCloseBetsAt, anchorMs : ConfigAnchorMs]

\* if (closeBetsAt >= roundSeconds) closeBetsAt = Math.max(1, roundSeconds - 1)
CloseBetsGuard(cb, rs) == IF cb >= rs THEN JsMax(1, JsMinusOne(rs)) ELSE cb

\* the handler, synchronous: the three assignments and the guardrail
PutConfigOf(bodies) ==
  /\ \E body \in bodies :
       LET rs == IF ~body.roundSeconds.nan
                   THEN JsMax(30, JsFloor(body.roundSeconds)) ELSE roundSeconds
           cb == IF ~body.closeBetsAt.nan
                   THEN JsMax(1, JsFloor(body.closeBetsAt)) ELSE closeBetsAt
           am == IF ~body.anchorMs.nan THEN JsFloor(body.anchorMs) ELSE anchorMs
       IN /\ roundSeconds' = rs
          /\ closeBetsAt' = CloseBetsGuard(cb, rs)
          /\ anchorMs' = am
  /\ UNCHANGED <<now, db, locks, fixed, limiter, picker, call, pc, loc, resp, hist>>

PutConfig == PutConfigOf(ConfigBodies)

\* parseInt(process.env.X, 10): NaN or an integer
EnvValues == {NaN, Finite(10, 1), Finite(0, 1), Finite(120, 1), Finite(Two53Code + 2, 1)}
\* the start-up guardrails, server.js:46-48
StartupRoundSeconds(env) == IF env.nan \/ env.n < 30 THEN 300 ELSE env.n
StartupCloseBetsAt(env, rs) ==
  CloseBetsGuard(IF env.nan \/ env.n < 1 THEN 30 ELSE env.n, rs)

\* start-up with any ROUND_SECONDS and CLOSE_BETS_AT
InitConfig ==
  /\ \E envRs, envCb \in EnvValues :
       /\ roundSeconds = StartupRoundSeconds(envRs)
       /\ closeBetsAt = StartupCloseBetsAt(envCb, StartupRoundSeconds(envRs))
  /\ anchorMs = 0
  /\ InitRest
  /\ PickIdle
  /\ CallIdle
  /\ SeedSet
  /\ server = "root" /\ hasAdminLedger = FALSE /\ hasAmountCheck = FALSE

\* ------------------------------------------------------------ specification
Next ==
  \/ Tick
  \/ \E p \in BetProcs : BetCheck(p) \/ BetLock(p) \/ BetCommit(p)
  \/ \E p \in SettleProcs :
       SettleStart(p) \/ SettleAlready(p) \/ SettleBank(p) \/ SettleMark(p)
         \/ SettleCredit(p) \/ SettleCommit(p) \/ SettleFail(p)

Spec == Init /\ [][Next]_vars

\* the bet pipeline of either server alone: nothing but bets changes a balance
InitBet ==
  InitState /\ server \in {"root", "api"} /\ hasAdminLedger = FALSE /\ hasAmountCheck = FALSE
NextBet ==
  \/ Tick
  \/ \E p \in BetProcs : BetCheck(p) \/ BetLock(p) \/ BetCommit(p)
  \/ \E p \in BetProcs : ApiBetCheck(p) \/ ApiBetLock(p) \/ ApiBetCommit(p)
  \/ \E p \in BetProcs : PoolRecycle(p)
SpecBet == InitBet /\ [][NextBet]_vars

\* the validation of POST /api/bet of either server, for the requests of any
\* client, with or without the CHECK on bets.amount
InitValidate ==
  InitState /\ server \in {"root", "api"} /\ hasAdminLedger = FALSE
    /\ hasAmountCheck \in BOOLEAN
NextValidate ==
  \/ Tick
  \/ \E p \in BetProcs : BetCheckAny(p) \/ BetLock(p) \/ BetCommit(p)
  \/ \E p \in BetProcs : ApiBetCheckAny(p) \/ ApiBetLock(p) \/ ApiBetCommit(p)
SpecValidate == InitValidate /\ [][NextValidate]_vars

\* the round engine with constant parameters, observed around the rounds' edges
RoundSpan == 1
\* guarded timing parameters; with anchorMs = 100000 the start is before the anchor
InitRound ==
  /\ roundSeconds \in {30, 60, 300}
  /\ closeBetsAt \in {1, 29}
  /\ anchorMs \in {0, 100000}
  /\ InitRest
  /\ PickIdle
  /\ CallIdle
  /\ SeedSet
  /\ server = "root" /\ hasAdminLedger = FALSE /\ hasAmountCheck = FALSE
\* the start, the close and the end of the rounds around the anchor, and the
\* milliseconds next to them
RoundInstants ==
  {anchorMs + k * roundSeconds * 1000 + edge + off :
     k \in (0 - RoundSpan)..RoundSpan,
     edge \in {0, (roundSeconds - closeBetsAt) * 1000},
     off \in {0 - 1, 0, 1}}
\* Date.now() at a later observation
ClockJump ==
  /\ \E t \in RoundInstants : t > now /\ now' = t
  /\ UNCHANGED <<timing, db, locks, fixed, limiter, picker, call, pc, loc, resp, hist>>
NextRound == ClockJump
SpecRound == InitRound /\ [][NextRound]_vars

\* the timing parameters under PUT /api/admin/config, as time passes
NextConfig ==
  \/ Tick
  \/ PutConfig
SpecConfig == InitConfig /\ [][NextConfig]_vars

\* redeem attempts of two client IPs at redeemRateLimit
NextLimit ==
  \/ LimTick
  \/ \E ip \in Ips : redeemRateLimit(ip)
  \/ LimiterSweep
SpecLimit == Init /\ [][NextLimit]_vars

\* two signups with either server
InitSignup ==
  InitState /\ server \in {"root", "api"} /\ hasAdminLedger = FALSE /\ hasAmountCheck = FALSE
NextSignup ==
  \/ Tick
  \/ \E p \in DupSignupProcs : SignupInsert(p) \/ SignupLedger(p) \/ SignupLedgerFail(p)
  \/ \E p \in DupSignupProcs : ApiSignup(p)
SpecSignup == InitSignup /\ [][NextSignup]_vars

\* src/apps/api/server.js: bets and settlements, with or without admin_ledger
InitApi ==
  InitState /\ server = "api" /\ hasAdminLedger \in BOOLEAN /\ hasAmountCheck = FALSE
ApiSettleProcs == {"s1"}
NextApi ==
  \/ Tick
  \/ \E p \in BetProcs : ApiBetCheck(p) \/ ApiBetLock(p) \/ ApiBetCommit(p)
  \/ \E p \in BetProcs : PoolRecycle(p)
  \/ \E p \in ApiSettleProcs :
       ApiSettleBegin(p) \/ ApiSettleInsert(p) \/ ApiSettleCredit(p)
         \/ ApiSettleCommit(p) \/ ApiSettleFail(p)
SpecApi == InitApi /\ [][NextApi]_vars

\* concurrent redeems of one code and an admin status change
NextRedeem ==
  \/ Tick
  \/ \E p \in RedeemProcs :
       RedeemCheck(p) \/ RedeemLockCode(p) \/ RedeemCommit(p) \/ RedeemFail(p)
  \/ \E p \in AdminProcs : StatusBegin(p) \/ StatusCommit(p) \/ AdminFail(p)
SpecRedeem == Init /\ [][NextRedeem]_vars

\* the wallet: signup, a redeem, the admin operations, a bet and a settlement
WalletBetProcs == {"b1"}
WalletSettleProcs == {"s1"}
WalletRedeemProcs == {"r1"}
NextWallet ==
  \/ Tick
  \/ \E p \in SignupProcs : SignupInsert(p) \/ SignupLedger(p) \/ SignupLedgerFail(p)
  \/ \E p \in WalletRedeemProcs :
       RedeemCheck(p) \/ RedeemLockCode(p) \/ RedeemCommit(p) \/ RedeemFail(p)
  \/ \E p \in AdminProcs : AddDosBegin(p) \/ AddDosCommit(p)
  \/ \E p \in AdminProcs : SetDosBegin(p) \/ SetDosCommit(p)
  \/ \E p \in AdminProcs : StatusBegin(p) \/ StatusCommit(p) \/ AdminFail(p)
  \/ \E p \in WalletBetProcs : BetCheck(p) \/ BetLock(p) \/ BetCommit(p)
  \/ \E p \in WalletSettleProcs :
       SettleStart(p) \/ SettleAlready(p) \/ SettleBank(p) \/ SettleMark(p)
         \/ SettleCredit(p) \/ SettleCommit(p) \/ SettleFail(p)
SpecWallet == Init /\ [][NextWallet]_vars

\* ------------------------------- pickOutcomeForRound (src/apps/api/server.js)
\* values of the 8-hex-digit words of the digest: four that differ modulo 20
\* (40 gives the number 1, 39 the number 20)
HexWords == {7, 13, 39, 40}
\* hex.length: a SHA-256 hex digest has 64 digits
HexLength == 64
\* hashSeed("round", roundId): any digest
Digests == [1..(HexLength \div 8) -> HexWords]

\* nextInt(mod) reads parseInt(hex.slice(idx, idx + 8), 16) % mod
nextInt(mod) == pickHex[(pickIdx \div 8) + 1] % mod

\* Array.from(nums).sort((a, b) => a - b)
RECURSIVE SortAsc(_)
SortAsc(S) ==
  IF S = {} THEN <<>>
  ELSE LET m == CHOOSE x \in S : \A y \in S : x <= y
       IN <<m>> \o SortAsc(S \ {m})

\* one iteration of: while (nums.size < 4) nums.add(1 + nextInt(20))
PickDraw ==
  /\ pickPc = "loop"
  /\ Cardinality(pickNums) < 4
  /\ pickNums' = pickNums \cup {1 + nextInt(20)}
  /\ pickIdx' = (pickIdx + 8) % HexLength
  /\ UNCHANGED <<pickHex, pickPc, pickOut, rngX>>
  /\ UNCHANGED <<now, timing, db, locks, fixed, limiter, call, pc, loc, resp, hist>>

\* the loop has ended: main, chance and the return
PickReturn ==
  /\ pickPc = "loop"
  /\ ~(Cardinality(pickNums) < 4)
  /\ pickOut' = [main |-> SortAsc(pickNums), chance |-> 1 + nextInt(5)]
  /\ pickIdx' = (pickIdx + 8) % HexLength
  /\ pickPc' = "done"
  /\ UNCHANGED <<pickHex, pickNums, rngX>>
  /\ UNCHANGED <<now, timing, db, locks, fixed, limiter, call, pc, loc, resp, hist>>

\* a call of pickOutcomeForRound with any digest, at its first statement
InitPick ==
  /\ InitTiming
  /\ InitRest
  /\ server = "api" /\ hasAdminLedger = FALSE /\ hasAmountCheck = FALSE
  /\ pickHex \in Digests
  /\ pickIdx = 0
  /\ pickNums = {}
  /\ pickPc = "loop"
  /\ pickOut = NULL
  /\ rngX = {}
  /\ CallIdle
  /\ SeedSet

NextPick == PickDraw \/ PickReturn

\* the function is synchronous JavaScript: once called it keeps running
SpecPick == InitPick /\ [][NextPick]_vars /\ WF_vars(NextPick)

\* ------------------------- PUT /api/admin/config while rounds are being played
\* bodies that lengthen the round, move the anchor, or both
ReopenBodies ==
  [roundSeconds : {NaN, Finite(600, 1)}, closeBetsAt : {NaN},
   anchorMs : {NaN, Finite(300000, 1)}]

PutConfigReopen == PutConfigOf(ReopenBodies)

\* one bet request, the settlement requests, the clock and the config handler
NextReopen ==
  \/ Tick
  \/ BetCheck("b1") \/ BetLock("b1") \/ BetCommit("b1")
  \/ \E p \in SettleProcs :
       SettleStart(p) \/ SettleAlready(p) \/ SettleBank(p) \/ SettleMark(p)
         \/ SettleCredit(p) \/ SettleCommit(p) \/ SettleFail(p)
  \/ PutConfigReopen

SpecReopen == Init /\ [][NextReopen]_vars

\* ------------------------------------- bets and settlements of either server
InitSettle ==
  InitState /\ server \in {"root", "api"} /\ hasAdminLedger = (server = "api")
    /\ hasAmountCheck = FALSE

\* the settlement requests of the deployed server: two of src/server.js, one
\* of src/apps/api/server.js
RootSettleProcs == IF server = "root" THEN SettleProcs ELSE {}
OnlyApiSettleProcs == IF server = "api" THEN ApiSettleProcs ELSE {}

NextSettle ==
  \/ Tick
  \/ \E p \in BetProcs : BetCheck(p) \/ BetLock(p) \/ BetCommit(p)
  \/ \E p \in BetProcs : ApiBetCheck(p) \/ ApiBetLock(p) \/ ApiBetCommit(p)
  \/ \E p \in BetProcs : PoolRecycle(p)
  \/ \E p \in RootSettleProcs :
       SettleStart(p) \/ SettleAlready(p) \/ SettleBank(p) \/ SettleMark(p)
         \/ SettleCredit(p) \/ SettleCommit(p) \/ SettleFail(p)
  \/ \E p \in OnlyApiSettleProcs :
       ApiSettleBegin(p) \/ ApiSettleInsert(p) \/ ApiSettleCredit(p)
         \/ ApiSettleCommit(p) \/ ApiSettleFail(p)

SpecSettle == InitSettle /\ [][NextSettle]_vars

\* ------------------- the classification of a bet (src/apps/api/server.js)
\* the numbers a bet can be made of in this study
ClassifyRange == 1 .. 8
\* stored bets: 4 to 8 distinct numbers (normalizeNums), any chance
ClassifyBets ==
  [nums : {S \in SUBSET ClassifyRange : Cardinality(S) >= 4}, chance : {1, 2}]
\* the outcome of the round: 4 numbers and a chance
ClassifyOutcomes == {[main |-> {1, 2, 3, 4}, chance |-> 1], [main |-> {2, 4, 6, 8}, chance |-> 2]}

\* the body of the bucket loop for one bet b: chanceOk, matches, cat
ClassifyBet ==
  /\ callArgs # <<>> /\ callRet = <<>>
  /\ LET b == callArgs[1].bet
         outcome == callArgs[1].outcome
         chanceOk == b.chance = outcome.chance
         matches == countMatches(b.nums, outcome.main)
     IN callRet' = <<[matches |-> matches, cat |-> prizeCategory(matches, chanceOk)]>>
  /\ UNCHANGED <<now, timing, db, locks, fixed, limiter, picker, callArgs, pc, loc, resp, hist>>

InitClassify ==
  /\ InitTiming /\ InitRest /\ PickIdle /\ SeedSet
  /\ server = "api" /\ hasAdminLedger = FALSE /\ hasAmountCheck = FALSE
  /\ callArgs \in {<<a>> : a \in [bet : ClassifyBets, outcome : ClassifyOutcomes]}
  /\ callRet = <<>>

NextClassify == ClassifyBet

SpecClassify == InitClassify /\ [][NextClassify]_vars

\* ------------------------- POST /api/bet (server.js) with both body formats
NextFormats ==
  \/ Tick
  \/ \E p \in BetProcs : BetCheckAny(p) \/ BetCheckLegacy(p) \/ BetLock(p) \/ BetCommit(p)

SpecFormats == Init /\ [][NextFormats]_vars

\* --------------------------------- settlements under any SECRET_SEED
\* SECRET_SEED unset, of 8 and of 16 characters
SeedLengths == {0, 8, MinSeedLength}

InitSeed ==
  /\ InitTiming /\ InitRest /\ PickIdle /\ CallIdle
  /\ secretSeedLen \in SeedLengths
  /\ server \in {"root", "api"} /\ hasAdminLedger = (server = "api")
  /\ hasAmountCheck = FALSE

SpecSeed == InitSeed /\ [][NextSettle]_vars

\* ------------------------ POST /api/player/redeem with codes as typed
NextCode ==
  \/ Tick
  \/ \E p \in RedeemProcs :
       RedeemCheckRaw(p) \/ RedeemLockCode(p) \/ RedeemCommit(p) \/ RedeemFail(p)
  \/ \E p \in AdminProcs : StatusBegin(p) \/ StatusCommit(p) \/ AdminFail(p)

SpecCode == Init /\ [][NextCode]_vars

\* ----------------------------------- seededRng / drawNumbers (server.js)
\* a 32-bit word is the set of the positions (0 = lowest) of its 1 bits
BitPositions == 0 .. 31
Shl(x, k) == {i + k : i \in {j \in x : j + k <= 31}}
Shr(x, k) == {i - k : i \in {j \in x : j >= k}}
Xor(x, y) == (x \ y) \cup (y \ x)
\* 0x12345678
SeedDefault == {3, 4, 5, 6, 9, 10, 12, 14, 18, 20, 21, 25, 28}
\* a generator that keeps a seed of 0
SeedKept(x) == x
\* if (x === 0) x = 0x12345678
SeedFix(x) == IF x = {} THEN SeedDefault ELSE x
\* x ^= x << 13; x ^= x >>> 17; x ^= x << 5
XorShift(x) ==
  LET a == Xor(x, Shl(x, 13))
      b == Xor(a, Shr(a, 17))
  IN Xor(b, Shl(b, 5))
RECURSIVE Pow2(_)
Pow2(n) == IF n = 0 THEN 1 ELSE 2 * Pow2(n - 1)
\* the number whose bits 0..n are the bits from..from+n of x
RECURSIVE BitsValue(_, _, _)
BitsValue(x, from, n) ==
  IF n < 0 THEN 0
  ELSE (IF from + n \in x THEN Pow2(n) ELSE 0) + BitsValue(x, from, n - 1)
\* the high and the low 16 bits of x >>> 0
HighHalf(x) == BitsValue(x, 16, 15)
LowHalf(x) == BitsValue(x, 0, 15)
\* a scaling that rounds to the nearest integer
RandRound(x, m) ==
  ((2 * m * HighHalf(x) + (2 * m * LowHalf(x)) \div 65536) \div 65536 + 1) \div 2
\* Math.floor(rand() * m) for rand() = (x >>> 0) / 4294967296, m small
RandFloor(x, m) == (m * HighHalf(x) + (m * LowHalf(x)) \div 65536) \div 65536

\* the first four bytes of the HMAC digest: one bit, no bit, all bits, and three others
DrawSeeds ==
  {{i} : i \in BitPositions} \cup {{}, BitPositions, SeedDefault,
                                  {i \in BitPositions : i % 2 = 0}, {31, 30, 29, 28, 0}}

\* seededRng(roundId): x from the digest, the zero seed replaced
DrawSeed ==
  /\ pickPc = "seed"
  /\ rngX' = SeedFix(rngX)
  /\ pickPc' = "loop"
  /\ UNCHANGED <<pickHex, pickIdx, pickNums, pickOut>>
  /\ UNCHANGED <<now, timing, db, locks, fixed, limiter, call, pc, loc, resp, hist>>

\* one iteration of: while (nums.size < 4) nums.add(1 + Math.floor(r() * 20))
DrawLoop ==
  /\ pickPc = "loop"
  /\ Cardinality(pickNums) < 4
  /\ rngX' = XorShift(rngX)
  /\ pickNums' = pickNums \cup {1 + RandFloor(XorShift(rngX), 20)}
  /\ UNCHANGED <<pickHex, pickIdx, pickPc, pickOut>>
  /\ UNCHANGED <<now, timing, db, locks, fixed, limiter, call, pc, loc, resp, hist>>

\* drawNums sorted, drawChance = 1 + Math.floor(r() * 5), return
DrawReturn ==
  /\ pickPc = "loop"
  /\ ~(Cardinality(pickNums) < 4)
  /\ rngX' = XorShift(rngX)
  /\ pickOut' = [drawNums |-> SortAsc(pickNums),
                 drawChance |-> 1 + RandFloor(XorShift(rngX), 5)]
  /\ pickPc' = "done"
  /\ UNCHANGED <<pickHex, pickIdx, pickNums>>
  /\ UNCHANGED <<now, timing, db, locks, fixed, limiter, call, pc, loc, resp, hist>>

\* a call of drawNumbers with any of the seeds, at its first statement
InitDraw ==
  /\ InitTiming /\ InitRest /\ CallIdle /\ SeedSet
  /\ server = "root" /\ hasAdminLedger = FALSE /\ hasAmountCheck = FALSE
  /\ pickHex = <<>> /\ pickIdx = 0 /\ pickNums = {} /\ pickOut = NULL
  /\ pickPc = "seed"
  /\ rngX \in DrawSeeds

NextDraw == DrawSeed \/ DrawLoop \/ DrawReturn

\* the function is synchronous JavaScript: once called it keeps running
SpecDraw == InitDraw /\ [][NextDraw]_vars /\ WF_vars(NextDraw)

\* ------------------------------ settlements under any draws of the rounds
\* two outcomes a round can have
AnyOutcomes == {[nums |-> {1, 2, 3, 4}, chance |-> 1], [nums |-> {5, 6, 7, 8}, chance |-> 2]}

InitDeterm ==
  /\ InitTiming /\ InitTables /\ PickIdle /\ CallIdle /\ SeedSet
  /\ drawOf \in [RoundIds -> AnyOutcomes]
  /\ server = "root" /\ hasAdminLedger = FALSE /\ hasAmountCheck = FALSE

\* one bet request, two settlement requests (a failed one and its retry
\* included), the clock
NextDeterm ==
  \/ Tick
  \/ BetCheck("b1") \/ BetLock("b1") \/ BetCommit("b1")
  \/ \E p \in SettleProcs :
       SettleStart(p) \/ SettleAlready(p) \/ SettleBank(p) \/ SettleMark(p)
         \/ SettleCredit(p) \/ SettleCommit(p) \/ SettleFail(p)

SpecDeterm == InitDeterm /\ [][NextDeterm]_vars

\* ------------------------------- categoryForBet on two bets (server.js)
\* the stored bets of 4 numbers out of 1..8, with chance 1 or 2
FourNumberBets == [nums : {S \in SUBSET (1..8) : Cardinality(S) = 4}, chance : {1, 2}]
\* two bets of one round, with the same chance, and the draw of the round
BetPairs ==
  {pair \in [a : FourNumberBets, b : FourNumberBets, draw : Outcomes] :
     pair.a.chance = pair.b.chance}

\* the categorisation loop of the settlement over the two bets
CategoriseBets ==
  /\ callArgs # <<>> /\ callRet = <<>>
  /\ LET in == callArgs[1]
     IN callRet' = <<[a |-> categoryForBet(in.a.nums, in.a.chance, in.draw.nums, in.draw.chance),
                     b |-> categoryForBet(in.b.nums, in.b.chance, in.draw.nums, in.draw.chance)]>>
  /\ UNCHANGED <<now, timing, db, locks, fixed, limiter, picker, callArgs, pc, loc, resp, hist>>

InitMatch ==
  /\ InitTiming /\ InitRest /\ PickIdle /\ SeedSet
  /\ server = "root" /\ hasAdminLedger = FALSE /\ hasAmountCheck = FALSE
  /\ callArgs \in {<<pair>> : pair \in BetPairs}
  /\ callRet = <<>>

NextMatch == CategoriseBets

SpecMatch == InitMatch /\ [][NextMatch]_vars

\* ------------------------------------------------------------------ claims
TxnSteps == {"s_already", "s_bank", "s_mark", "s_credit"}

\* C1: every committed settlement conserves the DOS of the round:
\* adminTake + carryOut + the sum of the bet payouts = totalBets + carryIn
C1_Conservation ==
  \A s \in settleLog :
    s.adminTake + s.carryOut + s.distributed = s.totalBets + s.carryIn

\* C2: every player's balance equals the sum of the amounts of the player's
\* ledger rows, in every committed state of the database
C2_LedgerBalance ==
  \A q \in DOMAIN players : players[q].balance_dos = LedgerSum(q)

\* C3: two committed bets of one player never cost more together than the
\* balance the player had, and a bet that gets the player's row after another
\* bet committed, the two costing more than that balance, is rejected with
\* 'insufficient balance'; on either server, nothing but bets changing balances
C3_NoDoubleSpend ==
  /\ [](\A i, j \in DOMAIN bets :
          (i # j /\ bets[i].player_id = bets[j].player_id)
            => bets[i].amount + bets[j].amount <= SIGNUP_BONUS_DOS)
  /\ [][\A p \in BetProcs :
          (/\ pc[p] \in {"b_lock", "ab_lock"}
           /\ pc'[p] # pc[p]
           /\ \E j \in DOMAIN bets :
                /\ bets[j].player_id = loc[p].playerId
                /\ bets[j].amount + loc[p].cost > SIGNUP_BONUS_DOS)
            => resp'[p] = Reply(409, "insufficient balance")]_vars
\* one bet committed and the other bet of the player was rejected for its balance
C3_Witness ==
  \E p, q \in BetProcs :
    /\ p \in DOMAIN bets
    /\ resp[q] = Reply(409, "insufficient balance")
    /\ bets[p].amount < SIGNUP_BONUS_DOS
    /\ players[bets[p].player_id].balance_dos = SIGNUP_BONUS_DOS - bets[p].amount

\* C4: at most one settlement transaction commits writes for a round
C4_OneSettlementPerRound ==
  \A r \in RoundIds : Cardinality({s \in settleLog : s.roundId = r}) <= 1

\* C5: a settle request that makes its idempotence check after the round's
\* settlement has committed changes no table, and unless a database error
\* hits it, it answers ok with alreadySettled
C5_IdempotentSettle ==
  [][\A p \in SettleProcs :
       (pc[p] = "s_already" /\ loc[p].roundId \in DOMAIN rounds /\ pc'[p] # "s_already")
         => /\ UNCHANGED db
            /\ resp'[p].code # 500 => resp'[p] = Reply(200, "alreadySettled")]_vars
C5_Witness ==
  \E p \in SettleProcs : resp[p] = Reply(200, "alreadySettled") /\ rounds # EmptyFn

\* C6: once a round is settled, every bet of the round that committed before
\* the round's end was loaded (and locked) by a committed settlement of the
\* round and is marked settled
C6_LateBetsCaptured ==
  \A r \in DOMAIN rounds : \A b \in DOMAIN bets :
    (bets[b].round_id = r /\ betCommitMs[b] < getRoundById(r, now).roundEndMs)
      => /\ bets[b].settled
         /\ \E s \in settleLog : s.roundId = r /\ b \in s.loaded /\ b \in s.marked
\* a bet that committed after closeAt and before the end of its round is settled
C6_Witness ==
  \E b \in DOMAIN bets :
    /\ bets[b].round_id \in DOMAIN rounds
    /\ betCommitMs[b] >= getRoundById(bets[b].round_id, now).closeAtMs
    /\ betCommitMs[b] < getRoundById(bets[b].round_id, now).roundEndMs
    /\ bets[b].settled

\* C7: a settlement transaction that fails after BEGIN leaves every table as it
\* was and holds no row lock afterwards
C7_AllOrNothing ==
  [][\A p \in SettleProcs :
       (pc[p] \in TxnSteps /\ resp'[p].code = 500)
         => (UNCHANGED db /\ \A r \in Rows : locks'[r] # p)]_vars
\* a settlement failed after it had credited a player, and a retry settled the round
C7_Witness ==
  \E f \in settleFails :
    /\ f.credited # {}
    /\ \E s \in settleLog : s.roundId = f.roundId /\ s.distributed > 0

\* the number of REDEEM credits the ledger holds for code c
RedeemCredits(c) ==
  BagCardinality([r \in {x \in BagToSet(dos_ledger) : x.type = "REDEEM" /\ x.ref = c}
                    |-> CopiesIn(r, dos_ledger)])
RedeemUsed == Reply(409, "code deja utilise/desactive")

\* C8: a gift code is credited at most once, and exactly once when its status
\* is REDEEMED; of concurrent redeems that end with a credit or with 'already
\* used', exactly one credited; a redeem that finds the code REDEEMED under
\* the code's row lock answers 409 and changes no balance, ledger or code row
C8_SingleUse ==
  /\ [](\A c \in Codes :
          /\ RedeemCredits(c) <= 1
          /\ (gift_codes[c].status = "REDEEMED") <=> (RedeemCredits(c) = 1)
          /\ Cardinality({p \in RedeemProcs : resp[p] = Reply(200, "ok")}) <= 1)
  /\ []((\A p \in RedeemProcs : resp[p] \in {Reply(200, "ok"), RedeemUsed})
          => Cardinality({p \in RedeemProcs : resp[p] = Reply(200, "ok")}) = 1)
  /\ [][\A p \in RedeemProcs :
          (/\ pc[p] = "r_code"
           /\ pc'[p] # "r_code"
           /\ gift_codes[loc[p].code].status = "REDEEMED")
            => (resp'[p] = RedeemUsed /\ UNCHANGED db)]_vars
\* both redeems of the code ended: one credited, the other found it used
C8_Witness ==
  \E p, q \in RedeemProcs :
    /\ resp[p] = Reply(200, "ok")
    /\ resp[q] = RedeemUsed
    /\ \E c \in Codes : gift_codes[c].status = "REDEEMED" /\ RedeemCredits(c) = 1

\* C9: no bet or redeem commits a balance change for a player whose committed
\* status is not ACTIVE at the moment of the commit
C9_NoSuspendedCredit ==
  [][\A p \in BetProcs \cup RedeemProcs :
       (resp[p].code # 200 /\ resp'[p].code = 200)
         => players[loc[p].playerId].status = "ACTIVE"]_vars

\* C10: every player's balance is at least 0
C10_BalanceNonNegative ==
  \A q \in DOMAIN players : players[q].balance_dos >= 0
\* an admin set-dos lowered a balance and a bet that it no longer covers was rejected
C10_Witness ==
  \E b \in BetProcs : \E a \in AdminProcs :
    /\ resp[b] = Reply(409, "insufficient balance")
    /\ resp[a] = Reply(200, "ok")
    /\ \E q \in DOMAIN players :
         players[q].balance_dos < SIGNUP_BONUS_DOS /\ players[q].balance_dos >= 0

\* C11: every committed settlement of POST /api/settle conserves the pot:
\* adminTake + carry + the sum of the bet payouts = pot
C11_ApiConservation ==
  server = "api" =>
    \A s \in settleLog :
      s.adminTake + s.carryOut + s.distributed = s.totalBets

\* C12: in every committed settlement of POST /api/admin/settle each winning bet
\* w of a category gets floor(catPot * amount_w / S), S the total stake of the
\* category's winning bets
C12_ProrataByStake ==
  [][\A p \in SettleProcs :
       (pc[p] = "s_credit" /\ resp'[p] = Reply(200, "settled"))
         => LET payouts == loc[p].comp.payouts IN
            \A i \in DOMAIN payouts :
              LET cat == payouts[i].category
                  W == {j \in DOMAIN payouts : payouts[j].category = cat}
                  catPot == FloorPct(loc[p].comp.potTotal, POT_SHARES[cat])
              IN payouts[i].amount = (catPot * bets[i].amount) \div SumAmount(bets, W)]_vars

\* C13: no settle request goes past its preconditions for a round that has
\* not ended at the time of the request, and no settlement is committed for a
\* round before the round's end
C13_NoEarlySettle ==
  /\ [](\A s \in settleLog : ~(now < getRoundById(s.roundId, now).roundEndMs))
  /\ [][\A p \in SettleProcs :
          (pc[p] = "start" /\ pc'[p] \notin {"start", "done"})
            => ~(now < getRoundById(loc'[p].roundId, now).roundEndMs)]_vars

\* C14: a POST /api/bet received when now >= closeAt of the current round is
\* answered 409 "bets closed" with the current roundId and secToClose = 0, and
\* changes no balance, bet or ledger row.
C14_BetsClosed ==
  [][\A p \in BetProcs :
       (pc[p] = "start" /\ pc'[p] # "start" /\ now >= getRoundInfo(now).closeAtMs)
         => /\ pc'[p] = "done"
            /\ resp'[p] = [code |-> 409, error |-> "bets closed",
                           roundId |-> getRoundInfo(now).roundId, secToClose |-> 0]
            /\ UNCHANGED db]_vars

\* a bet posted at the very instant closeAt of round 0 was turned away
C14_Witness ==
  \E p \in BetProcs :
    /\ pc[p] = "done"
    /\ resp[p] = [code |-> 409, error |-> "bets closed", roundId |-> 0, secToClose |-> 0]
    /\ now = getRoundById(0, now).closeAtMs
    /\ p \notin DOMAIN bets

\* C15: a successful POST /api/bet of cost a by player p decreases p's balance
\* by exactly a, inserts exactly one bet row (player p, the round current at the
\* timing check, settled = false, payout 0, category null, the normalized nums
\* and chance), appends exactly one BET ledger row of amount -a for p, and
\* leaves every other player, bet, ledger row, gift code and round result
\* unchanged.
C15_BetFrame ==
  [][server = "root" => \A p \in BetProcs :
       /\ (pc[p] = "start" /\ pc'[p] = "b_lock")
            => loc'[p].roundId = getRoundInfo(now).roundId
       /\ (pc[p] = "b_write" /\ pc'[p] = "done" /\ resp'[p].code = 200)
            => LET pid == loc[p].playerId
                   a == loc[p].cost
               IN /\ players' = [players EXCEPT ![pid].balance_dos = players[pid].balance_dos - a]
                  /\ p \notin DOMAIN bets
                  /\ bets' = bets @@ (p :> [player_id |-> pid, round_id |-> loc[p].roundId,
                                            nums |-> loc[p].nums, chance |-> loc[p].chance,
                                            amount |-> a, settled |-> FALSE,
                                            payout_dos |-> 0, category |-> NULL])
                  /\ \E row \in [player_id : {pid}, type : {"BET"}, amount : {0 - a}, ref : {p}] :
                       dos_ledger' = dos_ledger (+) SetToBag({row})
                  /\ UNCHANGED <<gift_codes, game_bank, rounds, apidb>>]_vars

\* a bet of server.js is committed, still unsettled, and its BET row is in the ledger
C15_Witness ==
  /\ server = "root"
  /\ \E p \in BetProcs :
       /\ p \in DOMAIN bets /\ ~bets[p].settled /\ resp[p] = Reply(200, "ok")
       /\ \E row \in BagToSet(dos_ledger) :
            row.type = "BET" /\ row.amount = 0 - bets[p].amount /\ row.player_id = bets[p].player_id

\* C16: POST /api/bet of server.js rejects with 400 and without side effects
\* every amount that is not a positive integer (0, negative, or non-integer
\* such as 0.5): a request passes the validation only with an integer amount
\* >= 1, every committed bet has an integer amount >= 1, and no bet of stake 0
\* is there to take part in a settlement.
C16_AmountPositiveInteger ==
  /\ [](server = "root" => \A b \in DOMAIN bets : bets[b].amount >= 1)
  /\ [][server = "root" => \A p \in BetProcs :
         /\ (pc[p] = "start" /\ pc'[p] = "b_lock")
              => (NumIsInteger(loc'[p].amount) /\ loc'[p].amount.n >= loc'[p].amount.d)
         /\ (pc[p] = "start" /\ pc'[p] = "done") => UNCHANGED db]_vars

\* the validation of p's request lets a request with the list numsRaw through
NumsAccepted(p, numsRaw) ==
  \/ ENABLED (BetCheckAny(p) /\ pc'[p] = "b_lock"
                /\ loc'[p].nums = {numsRaw[i] : i \in DOMAIN numsRaw})
  \/ ENABLED (ApiBetCheckAny(p) /\ pc'[p] = "ab_lock"
                /\ loc'[p].nums = {numsRaw[i] : i \in DOMAIN numsRaw})

\* C17: POST /api/bet of either server accepts a nums list whose deduplicated
\* size is any of 4..8 (all values integers in 1..20), and rejects with 400 a
\* list whose deduplicated size is 3 or 9.
C17_NumsSize ==
  \A p \in BetProcs : (pc[p] = "start" /\ getRoundInfo(now).betsOpen) =>
    \A numsRaw \in AnyNums :
      LET unique == {numsRaw[i] : i \in DOMAIN numsRaw} IN
      /\ (Cardinality(unique) \in 4..8 /\ unique \subseteq 1..20) => NumsAccepted(p, numsRaw)
      /\ Cardinality(unique) \in {3, 9} => ~NumsAccepted(p, numsRaw)

\* C18: a signup with a username that already exists is rejected with 409 and
\* leaves the number of players, every balance and the ledger unchanged (no
\* second signup bonus for the existing player), with either server.
C18_DuplicateUsername ==
  [][\A p \in DupSignupProcs : \A username \in SignupBodies \cup ApiSignupBodies :
       ((\E q \in DOMAIN players : players[q].username = username)
          /\ (SignupInsertOf(p, username) \/ ApiSignupOf(p, username)))
         => /\ resp'[p].code = 409
            /\ UNCHANGED <<players, dos_ledger>>]_vars

\* the attempts of ip that redeemRateLimit passed on, in order
AdmittedOf(ip) == SelectSeq(limLog, LAMBDA a : a.ip = ip /\ a.next)

RECURSIVE WindowOf(_, _)
\* the index of the attempt that opened the window of the k-th admitted attempt
\* of A: the first attempt opens a window, and so does the first one made
\* after the 60 seconds of the window before
WindowOf(A, k) ==
  IF k = 1 THEN 1
  ELSE LET o == WindowOf(A, k - 1)
       IN IF A[k].at > A[o].at + 60000 THEN k ELSE o

\* C19: for each client IP, redeemRateLimit admits at most 5 redeem attempts
\* in each fixed 60-second window (opened by the first admitted attempt); every
\* further attempt inside that window is rejected with 429 and a Retry-After
\* header and does not reach the redemption transaction; the counters of
\* different IPs are independent.
C19_RateLimit ==
  /\ [](\A ip \in Ips :
         LET A == AdmittedOf(ip) IN
         \A k \in DOMAIN A :
           Cardinality({j \in DOMAIN A : WindowOf(A, j) = WindowOf(A, k)}) <= 5)
  /\ [](\A i \in DOMAIN limLog :
         ~limLog[i].next => (limLog[i].code = 429 /\ limLog[i].retryAfterSec >= 0))
  /\ [][\A ip \in Ips :
         (Len(limLog') = Len(limLog) + 1 /\ limLog'[Len(limLog')].ip = ip)
           => \A other \in Ips \ {ip} :
                /\ (other \in DOMAIN redeemLimiter') = (other \in DOMAIN redeemLimiter)
                /\ other \in DOMAIN redeemLimiter => redeemLimiter'[other] = redeemLimiter[other]]_vars

\* an IP had five attempts admitted and a sixth rejected in the same window,
\* the other IP was admitted at that instant, and the first IP was admitted
\* again in a later window
C19_Witness ==
  \E i, j, k \in DOMAIN limLog :
    /\ i < j /\ j < k
    /\ limLog[i].code = 429
    /\ Cardinality({h \in 1..(i - 1) : limLog[h].ip = limLog[i].ip /\ limLog[h].next
                                        /\ limLog[i].at <= limLog[h].at + 60000}) = 5
    /\ limLog[j].ip # limLog[i].ip /\ limLog[j].next /\ limLog[j].at = limLog[i].at
    /\ limLog[k].ip = limLog[i].ip /\ limLog[k].next

\* C20: whenever a redeem attempt from an IP is rejected with 429 and
\* Retry-After = s seconds, an attempt from the same IP made exactly s seconds
\* (or more) after the rejected one is admitted.
C20_RetryAfter ==
  \A i, j \in DOMAIN limLog :
    ( /\ i < j
      /\ limLog[i].code = 429
      /\ limLog[j].ip = limLog[i].ip
      /\ \A h \in (i + 1)..(j - 1) : limLog[h].ip # limLog[i].ip
      /\ limLog[j].at >= limLog[i].at + limLog[i].retryAfterSec * 1000 )
    => limLog[j].next

\* C21: after the start-up guardrails and after any sequence of PUT
\* /api/admin/config requests with arbitrary fields, roundSeconds >= 30 and
\* 1 <= closeBetsAt <= roundSeconds - 1 hold, so every round has a non-empty
\* open window and a non-empty closed window.
C21_TimingGuardrails ==
  /\ roundSeconds >= 30
  /\ 1 <= closeBetsAt
  /\ closeBetsAt < roundSeconds

\* C22: with constant timing parameters, for all times t1 < t2 getRoundInfo
\* gives roundId(t1) <= roundId(t2), also for times before anchorMs, and for
\* every time t, roundStartMs <= t < roundEndMs of the returned round.
C22_RoundMonotonic ==
  /\ [](LET r == getRoundInfo(now) IN r.roundStartMs <= now /\ now < r.roundEndMs)
  /\ [][now < now' => getRoundInfo(now).roundId <= getRoundInfo(now').roundId]_vars

\* a time before anchorMs, in a round of negative id, reached by the clock
C22_Witness ==
  /\ 0 < now /\ now < anchorMs
  /\ getRoundInfo(now).roundId < 0
  /\ getRoundInfo(now).roundStartMs = now

\* C23: with constant parameters, betsOpen is true exactly for roundStartMs <=
\* now < closeAtMs and false for closeAtMs <= now < roundEndMs: within a round
\* it changes from true to false once, at closeAt, and at now = closeAt it is false.
C23_BetsOpenOnce ==
  /\ [](LET r == getRoundInfo(now)
        IN /\ r.roundStartMs < r.closeAtMs /\ r.closeAtMs < r.roundEndMs
           /\ (r.roundStartMs <= now /\ now < r.closeAtMs) => r.betsOpen
           /\ (r.closeAtMs <= now /\ now < r.roundEndMs) => ~r.betsOpen)
  /\ [][(getRoundInfo(now).roundId = getRoundInfo(now').roundId
          /\ ~getRoundInfo(now).betsOpen) => ~getRoundInfo(now').betsOpen]_vars

\* the clock stands at closeAt of a round and the bets are closed
C23_Witness ==
  /\ now > 0
  /\ now = getRoundInfo(now).closeAtMs
  /\ ~getRoundInfo(now).betsOpen

\* C24: no bet is ever committed into an already settled round: once the
\* settlement of round r has committed, no bet of round r with settled = false
\* exists or appears afterwards, under any interleaving of POST /api/bet and
\* POST /api/admin/settle.
C24_NoBetInSettledRound ==
  \A s \in settleLog : \A b \in DOMAIN bets :
    bets[b].round_id = s.roundId => bets[b].settled

\* C25: in POST /api/admin/settle every bet that the settlement marks settled
\* was loaded by its SELECT ... FOR UPDATE and had its amount counted in
\* totalBets, under any interleaving with bet transactions committing for the
\* round between the load and the UPDATE that marks the round's bets settled.
C25_MarkedWereLoaded ==
  \A s \in settleLog :
    /\ s.marked \subseteq s.loaded
    /\ s.totalBets = SumAmount(bets, s.marked)

\* C26: in POST /api/settle of src/apps/api/server.js the pot used for the
\* split equals the sum of the amounts of exactly the bets that the settlement
\* loads under lock and marks settled, in every interleaving with bet
\* transactions committing for the same round.
C26_ApiPotIsLoadedBets ==
  server = "api" =>
    \A s \in settleLog :
      /\ s.loaded = s.marked
      /\ s.totalBets = SumAmount(bets, s.loaded)

\* C27: every handler of src/apps/api/server.js that issues BEGIN ends its
\* transaction with COMMIT or ROLLBACK before releasing the connection, on
\* every exit path; hence no row lock taken by a request remains held after
\* the request has responded.
C27_NoLockAfterResponse ==
  server = "api" =>
    \A p \in Procs : pc[p] = "done" => \A r \in Rows : locks[r] # p

\* C28: pickOutcomeForRound terminates for every value of the seed hash: its
\* rejection loop over the eight words of the digest always collects 4
\* distinct numbers in 1..20, so every call eventually returns.
C28_PickTerminates == <>(pickPc = "done")

\* C29: a timing update cannot reopen a settled round: right after any
\* PUT /api/admin/config the current roundId of getRoundInfo is greater than
\* every roundId that a committed settlement has settled.
C29_ConfigKeepsSettledClosed ==
  [][PutConfigReopen =>
       \A s \in settleLog : (getRoundInfo(now).roundId)' > s.roundId]_vars

\* the settlement record a committing step adds to settleLog
NewSettlements == settleLog' \ settleLog
\* SUM(payout_dos) over the bets of round r in the table rows
PayoutOfRound(rows, r) ==
  LET ids == {i \in DOMAIN rows : rows[i].round_id = r}
  IN SumFn([i \in ids |-> rows[i].payout_dos], ids)
\* what a step adds to the players' balances
CreditedByStep ==
  SumFn([q \in DOMAIN players |-> players'[q].balance_dos - players[q].balance_dos],
        DOMAIN players)
\* the category of bet i of rows against the draw of its round
WonCategory(rows, i) ==
  categoryForBet(rows[i].nums, rows[i].chance,
                 drawOf[rows[i].round_id].nums, drawOf[rows[i].round_id].chance)

\* C30: when POST /api/admin/settle commits for round r, every bet it loaded
\* is settled; a winning bet carries its category and the payout computed for
\* it, a losing bet payout_dos 0 and category NULL; and the sum of payout_dos
\* over the bets of round r equals the amount that step credits to players.
C30_SettleBooksPayouts ==
  [][\A s \in NewSettlements :
       /\ \A i \in s.loaded :
            /\ bets'[i].settled
            /\ IF WonCategory(bets, i) # NULL
                 THEN /\ bets'[i].category = WonCategory(bets, i)
                      /\ bets'[i].payout_dos = loc[s.proc].comp.payouts[i].amount
                 ELSE /\ bets'[i].category = NULL
                      /\ bets'[i].payout_dos = 0
       /\ PayoutOfRound(bets', s.roundId) = CreditedByStep]_vars

\* the sum of the payouts a committing settlement s books on the bets of
\* player q that it loaded
GainOf(s, q) ==
  LET ids == {i \in s.loaded : bets'[i].player_id = q}
  IN SumFn([i \in ids |-> bets'[i].payout_dos], ids)
\* the WIN rows of player q a step appends to dos_ledger, as a bag
WinRowsOf(q) ==
  LET added == dos_ledger' (-) dos_ledger
      rows == {r \in BagToSet(added) : r.type = "WIN" /\ r.player_id = q}
  IN [r \in rows |-> CopiesIn(r, added)]

\* C31: a committing settlement appends, for each player whose payouts in the
\* round sum to a positive amount, exactly one WIN ledger row of that sum and
\* credits the balance by it; any other player gets no WIN row and keeps
\* the balance. Both servers.
C31_WinAggregation ==
  [][\A s \in NewSettlements : \A q \in DOMAIN players :
       IF GainOf(s, q) > 0
         THEN /\ BagCardinality(WinRowsOf(q)) = 1
              /\ \A r \in DOMAIN WinRowsOf(q) : r.amount = GainOf(s, q)
              /\ players'[q].balance_dos = players[q].balance_dos + GainOf(s, q)
         ELSE /\ WinRowsOf(q) = EmptyBag
              /\ players'[q].balance_dos = players[q].balance_dos]_vars
\* a settlement of either server has paid one player for two winning bets
C31_Witness ==
  \E s \in settleLog : \E i, j \in s.loaded :
    /\ i # j /\ bets[i].player_id = bets[j].player_id
    /\ bets[i].payout_dos > 0 /\ bets[j].payout_dos > 0
    /\ \E r \in BagToSet(dos_ledger) :
         r.type = "WIN" /\ r.amount = bets[i].payout_dos + bets[j].payout_dos

\* the category the classification rule gives to k matches and chance result c
RuleCategory(k, c) ==
  IF k >= 4 THEN (IF c = 1 THEN "4+1" ELSE "4+0")
  ELSE IF k = 3 THEN (IF c = 1 THEN "3+1" ELSE "3+0")
  ELSE IF k = 2 THEN (IF c = 1 THEN "2+1" ELSE "2+0")
  ELSE IF k = 1 /\ c = 1 THEN "1+1"
  ELSE NULL

\* C32: in src/apps/api/server.js a bet with k = |nums \cap outcome.main| and
\* c = 1 iff its chance is the outcome's gets '4+1' / '4+0' for k >= 4, then
\* '3+1', '3+0', '2+1', '2+0', '1+1' for the respective (k, c), and no category
\* for (1,0), (0,0), (0,1); bets of 5 to 8 numbers included, one category at most.
C32_Classification ==
  callRet # <<>> =>
    LET b == callArgs[1].bet
        k == Cardinality(b.nums \cap callArgs[1].outcome.main)
        c == IF b.chance = callArgs[1].outcome.chance THEN 1 ELSE 0
    IN /\ callRet[1].matches = k
       /\ callRet[1].cat = RuleCategory(k, c)
       /\ callRet[1].cat \in ApiCats \cup {NULL}
\* a bet of 8 numbers holding the 4 drawn ones has been classified '4+1'
C32_Witness ==
  /\ callRet # <<>>
  /\ Cardinality(callArgs[1].bet.nums) = 8
  /\ callRet[1].matches = 4 /\ callRet[1].cat = "4+1"

C34_BetRowsValid ==
  \A b \in DOMAIN bets :
    /\ Cardinality(bets[b].nums) \in 4..8
    /\ bets[b].nums \subseteq 1..20
    /\ bets[b].chance \in 1..5

\* C35: with SECRET_SEED missing or shorter than 16 characters a settle
\* request of either server fails with a configuration error before its
\* transaction: no settlement request is ever inside a transaction, none
\* commits, no outcome is recorded, and no finished request has answered 200
\* (in src/server.js, where the seed check comes first, each has answered 500).
C35_NoSettleWithoutSeed ==
  secretSeedLen < MinSeedLength =>
    /\ settleLog = {} /\ settleFails = {}
    /\ rounds = EmptyFn /\ round_results = EmptyFn
    /\ \A p \in SettleProcs :
         /\ pc[p] \in {"start", "done"}
         /\ pc[p] = "done" =>
              /\ resp[p].code # 200
              /\ server = "root" => resp[p].code = 500

\* a code of exactly 12 characters of ALPHABET
AlphabetCode(code) == Len(code) = 12 /\ \A i \in DOMAIN code : code[i] \in ALPHABET

\* C36: POST /api/player/redeem of src/server.js answers 400, before any
\* database access, every code that is not exactly 12 characters of
\* ABCDEFGHJKLMNPQRSTUVWXYZ23456789, a 12-character code with O, 0, I or 1
\* included.
C36_MalformedCodeRejected ==
  [][\A p \in RedeemProcs : \A raw \in RawCodes :
       (/\ ~AlphabetCode(NormalCode(raw))
        /\ RedeemCheckOf(p, {[playerId |-> 1, raw |-> raw]}))
         => (pc'[p] = "done" /\ resp'[p].code = 400)]_vars

\* C37: drawNumbers(roundId) returns, for every stream of the seeded
\* generator, exactly 4 distinct integers of 1..20 sorted ascending and a
\* chance that is an integer of 1..5: every call returns, and what it returns
\* has that shape.
C37_DrawShape ==
  /\ [](pickPc = "done" =>
         /\ Len(pickOut.drawNums) = 4
         /\ \A i \in 1..4 : pickOut.drawNums[i] \in 1..20
         /\ \A i \in 1..3 : pickOut.drawNums[i] < pickOut.drawNums[i + 1]
         /\ pickOut.drawChance \in 1..5)
  /\ <>(pickPc = "done")
\* the call seeded with 0 (x = 0x12345678) has returned 2, 6, 9, 11 and chance 1
C37_Witness ==
  /\ pickPc = "done"
  /\ pickOut = [drawNums |-> <<2, 6, 9, 11>>, drawChance |-> 1]
  /\ rngX = {0, 2, 3, 6, 9, 13, 14, 15, 19, 21, 23, 24, 27, 29}

CatRank(cat) ==
  IF cat = NULL THEN 0
  ELSE Len(CatOrder) + 1 - (CHOOSE i \in DOMAIN CatOrder : CatOrder[i] = cat)

\* C39: categoryForBet of src/server.js is monotone in the number of matches:
\* of two 4-number bets with the same chance, the one matching more drawn
\* numbers never gets a lower-ranked category, or no category, than the other.
C39_MonotoneInMatches ==
  callRet # <<>> =>
    LET in == callArgs[1]
        ka == Cardinality(in.a.nums \cap in.draw.nums)
        kb == Cardinality(in.b.nums \cap in.draw.nums)
    IN ka >= kb => CatRank(callRet[1].a) >= CatRank(callRet[1].b)

\* redeemRateLimit on a Map m that no sweeper touches: the Map after the
\* request of ip at nowMs, and the decision on it
UnsweptStep(m, ip, nowMs) ==
  IF ip \notin DOMAIN m \/ nowMs > m[ip].resetAtMs
    THEN [map |-> [x \in DOMAIN m \cup {ip} |->
                     IF x = ip THEN [count |-> 1, resetAtMs |-> nowMs + 60000] ELSE m[x]],
          next |-> TRUE, code |-> 0, retryAfterSec |-> 0]
  ELSE IF m[ip].count >= 5
    THEN [map |-> m, next |-> FALSE, code |-> 429,
          retryAfterSec |-> CeilDiv(m[ip].resetAtMs - nowMs, 1000)]
  ELSE [map |-> [m EXCEPT ![ip].count = @ + 1],
        next |-> TRUE, code |-> 0, retryAfterSec |-> 0]

RECURSIVE UnsweptAfter(_)
\* the result of the i-th attempt of limLog at a limiter without the sweeper
UnsweptAfter(i) ==
  UnsweptStep(IF i = 1 THEN EmptyFn ELSE UnsweptAfter(i - 1).map, limLog[i].ip, limLog[i].at)

\* C40: the sweeper deletes only entries whose window has expired
\* (now > resetAtMs) and leaves the other entries as they are, and the
\* decisions of redeemRateLimit with the sweeper running at any point between
\* the requests are those of the limiter without it on the same requests.
C40_SweeperTransparent ==
  /\ [][ /\ \A ip \in DOMAIN redeemLimiter \ DOMAIN redeemLimiter' :
              now > redeemLimiter[ip].resetAtMs
         /\ (limLog' = limLog) =>
              (\A ip \in DOMAIN redeemLimiter' :
                 ip \in DOMAIN redeemLimiter /\ redeemLimiter'[ip] = redeemLimiter[ip]) ]_vars
  /\ [](\A i \in DOMAIN limLog :
         LET u == UnsweptAfter(i)
         IN /\ limLog[i].next = u.next
            /\ limLog[i].code = u.code
            /\ limLog[i].retryAfterSec = u.retryAfterSec)

\* the sweeper has deleted the expired entry of one IP (admitted before,
\* now absent from the Map) and kept the full, unexpired entry of the other
\* IP, which was rejected with 429 more than 60 seconds after that attempt
C40_Witness ==
  \E a, b \in Ips :
    /\ a # b
    /\ a \notin DOMAIN redeemLimiter
    /\ b \in DOMAIN redeemLimiter /\ redeemLimiter[b].count = 5
    /\ now <= redeemLimiter[b].resetAtMs
    /\ \E i, j \in DOMAIN limLog :
         /\ limLog[i].ip = a /\ limLog[i].next
         /\ limLog[j].ip = b /\ limLog[j].code = 429 /\ limLog[j].at > limLog[i].at + 60000

============================================================================
